---------------------------- MODULE Spec2Model ----------------------------
(***************************************************************************)
(* A model of forecast-rs (src/src/lib.rs): the two request builders, the  *)
(* URL they build, and the serde response model.                           *)
(*                                                                         *)
(* Text is a sequence of tokens.  A token is either one character that the *)
(* URL or form-urlencoded syntax gives a meaning to ("/", "?", "#", "&",   *)
(* "=", ",", ".", the double quote) or a word: a run of characters that    *)
(* none of the parsers splits ("forecast", "some_api_key", "hourly").      *)
(* Option<T> is a sequence of length 0 (None) or 1 (Some).                 *)
(***************************************************************************)
EXTENDS Integers, Sequences, FiniteSets, TLC

\* ------------------------------------------------------------------ bounds

\* Longest exclusion sequence a builder accumulates.
MaxExclude == 3
\* Longest vector the caller hands to exclude_blocks.
MaxBlocks == 2

\* The exclude_blocks calls counted for one vector; further calls count as
\* the last.
MaxPasses == 2

\* Longest exclusion sequence of the requests that take their tags from the
\* whole enumerations.
MaxTags == 1

\* ------------------------------------------------------------- Option<T>

None == <<>>

Some(x) == <<x>>

IsSome(o) == Len(o) = 1

Unwrap(o) == o[1]

\* ------------------------------------------------------------------- text

QUOTE == "\""

RECURSIVE Concat(_)
\* The concatenation of a sequence of texts.
Concat(ss) == IF ss = <<>> THEN <<>> ELSE Head(ss) \o Concat(Tail(ss))

\* The first position of text holding a token of stops, Len(text) + 1 if none.
FirstOf(text, stops) ==
    IF \E i \in 1..Len(text) : text[i] \in stops
    THEN CHOOSE i \in 1..Len(text) :
            /\ text[i] \in stops
            /\ \A j \in 1..(i - 1) : text[j] \notin stops
    ELSE Len(text) + 1

RECURSIVE Split(_, _)
\* text cut at every token sep: Split("a/b//c", "/") = <<"a", "b", "", "c">>.
Split(text, sep) ==
    LET i == FirstOf(text, {sep})
    IN  IF i > Len(text)
        THEN <<text>>
        ELSE <<SubSeq(text, 1, i - 1)>> \o Split(SubSeq(text, i + 1, Len(text)), sep)

\* ---------------------------------------------------------- constants

\* A base without its scheme.
FORECAST_URL_no_scheme == <<"api.darksky.net", "/", "forecast">>

FORECAST_URL == <<"https", ":", "/", "/", "api.darksky.net", "/", "forecast">>

EXCLUDE == <<"exclude">>

EXTEND == <<"extend">>

LANG == <<"lang">>

UNITS == <<"units">>

\* ---------------------------------------------------------- enumerations

ExcludeBlock == {"Currently", "Minutely", "Hourly", "Daily", "Alerts", "Flags"}

ExtendBy == {"Hourly"}

Lang ==
    {"Arabic", "Azerbaijani", "Belarusian", "Bulgarian", "Bosnian", "Catalan",
     "Czech", "German", "Greek", "English", "Spanish", "Estonian", "French",
     "Croatian", "Hungarian", "Indonesian", "Italian", "Icelandic", "Georgian",
     "Cornish", "NorwegianBokmal", "Dutch", "Polish", "Portugese", "Russian",
     "Slovak", "Serbian", "Swedish", "Tetum", "Turkish", "Ukranian",
     "IgpayAtinlay", "SimplifiedChinese", "TraditionalChinese"}

Units == {"Auto", "CA", "UK", "Imperial", "SI"}

\* #[serde(rename = ..)] of ExcludeBlock.
ExcludeBlockRename(e) ==
    CASE e = "Currently" -> "currently"
      [] e = "Minutely" -> "minutely"
      [] e = "Hourly" -> "hourly"
      [] e = "Daily" -> "daily"
      [] e = "Alerts" -> "alerts"
      [] e = "Flags" -> "flags"

\* #[serde(rename = ..)] of ExtendBy.
ExtendByRename(e) ==
    CASE e = "Hourly" -> "hourly"

\* #[serde(rename = ..)] of Lang.
LangRename(l) ==
    CASE l = "Arabic" -> "ar"
      [] l = "Azerbaijani" -> "az"
      [] l = "Belarusian" -> "be"
      [] l = "Bulgarian" -> "bg"
      [] l = "Bosnian" -> "bs"
      [] l = "Catalan" -> "ca"
      [] l = "Czech" -> "cz"
      [] l = "German" -> "de"
      [] l = "Greek" -> "el"
      [] l = "English" -> "en"
      [] l = "Spanish" -> "es"
      [] l = "Estonian" -> "et"
      [] l = "French" -> "fr"
      [] l = "Croatian" -> "hr"
      [] l = "Hungarian" -> "hu"
      [] l = "Indonesian" -> "id"
      [] l = "Italian" -> "it"
      [] l = "Icelandic" -> "is"
      [] l = "Georgian" -> "ka"
      [] l = "Cornish" -> "kw"
      [] l = "NorwegianBokmal" -> "nb"
      [] l = "Dutch" -> "nl"
      [] l = "Polish" -> "pl"
      [] l = "Portugese" -> "pt"
      [] l = "Russian" -> "ru"
      [] l = "Slovak" -> "sk"
      [] l = "Serbian" -> "sr"
      [] l = "Swedish" -> "sv"
      [] l = "Tetum" -> "tet"
      [] l = "Turkish" -> "tr"
      [] l = "Ukranian" -> "uk"
      [] l = "IgpayAtinlay" -> "x-pig-latin"
      [] l = "SimplifiedChinese" -> "zh"
      [] l = "TraditionalChinese" -> "zh-tw"

\* A Units whose UK is written as Imperial is.
UnitsRename_uk_as_us(u) ==
    CASE u = "Auto" -> "auto"
      [] u = "CA" -> "ca"
      [] u = "UK" -> "us"
      [] u = "Imperial" -> "us"
      [] u = "SI" -> "si"

\* #[serde(rename = ..)] of Units.
UnitsRename(u) ==
    CASE u = "Auto" -> "auto"
      [] u = "CA" -> "ca"
      [] u = "UK" -> "uk2"
      [] u = "Imperial" -> "us"
      [] u = "SI" -> "si"

\* serde_json::to_string of a unit variant: its renamed name as a JSON string,
\* Ok(text) always (a unit variant holds nothing that can fail to serialize).
to_string(name) == [ok |-> TRUE, value |-> <<QUOTE, name, QUOTE>>]

RECURSIVE trim_start_matches(_, _)
trim_start_matches(text, c) ==
    IF text # <<>> /\ Head(text) = c THEN trim_start_matches(Tail(text), c) ELSE text

RECURSIVE trim_end_matches(_, _)
trim_end_matches(text, c) ==
    IF text # <<>> /\ text[Len(text)] = c
    THEN trim_end_matches(SubSeq(text, 1, Len(text) - 1), c)
    ELSE text

\* str::trim_matches: the text without its leading and trailing tokens c.
trim_matches(text, c) == trim_end_matches(trim_start_matches(text, c), c)

RECURSIVE join(_, _)
\* itertools::join: the texts with sep between each two of them.
join(texts, sep) ==
    IF texts = <<>> THEN <<>>
    ELSE IF Len(texts) = 1 THEN texts[1]
    ELSE texts[1] \o <<sep>> \o join(Tail(texts), sep)


\* ------------------------------------------------------------ reqwest::Url

\* The tokens Url::parse writes percent-encoded in a path or a query.
percent_encode(text) ==
    [i \in 1..Len(text) |-> IF text[i] = " " THEN "%20" ELSE text[i]]

RECURSIVE parse_path(_, _)
\* The path segments after "." and ".." are resolved: ".." removes the segment
\* before it, "." is dropped, and either one as the last segment leaves an
\* empty last segment.
parse_path(segments, done) ==
    IF segments = <<>> THEN done
    ELSE LET seg == Head(segments)
             last == Len(segments) = 1
             tail == IF last THEN <<<<>>>> ELSE <<>>
         IN  IF seg = <<".", ".">>
             THEN parse_path(Tail(segments),
                             (IF done = <<>> THEN <<>>
                              ELSE SubSeq(done, 1, Len(done) - 1)) \o tail)
             ELSE IF seg = <<".">>
             THEN parse_path(Tail(segments), done \o tail)
             ELSE parse_path(Tail(segments), done \o <<percent_encode(seg)>>)

\* Url::parse of an absolute URL of a special scheme: Ok(url) with the scheme,
\* the host, the path segments, the query and the fragment, or Err.
Url_parse(input) ==
    IF Len(input) < 2 \/ input[1] # "https" \/ input[2] # ":"
    THEN [ok |-> FALSE, err |-> "RelativeUrlWithoutBase"]
    ELSE LET afterScheme == SubSeq(input, 3, Len(input))
             authority == trim_start_matches(afterScheme, "/")
             hostEnd == FirstOf(authority, {"/", "?", "#"})
             host == SubSeq(authority, 1, hostEnd - 1)
             rest == SubSeq(authority, hostEnd, Len(authority))
             pathEnd == FirstOf(rest, {"?", "#"})
             pathText == SubSeq(rest, 1, pathEnd - 1)
             afterPath == SubSeq(rest, pathEnd, Len(rest))
             hash == FirstOf(afterPath, {"#"})
         IN  IF host = <<>>
             THEN [ok |-> FALSE, err |-> "EmptyHost"]
             ELSE [ok |-> TRUE,
                   value |->
                     [scheme |-> input[1],
                      host |-> host,
                      path |-> IF pathText = <<>> THEN <<<<>>>>
                               ELSE parse_path(Split(Tail(pathText), "/"), <<>>),
                      query |-> IF afterPath # <<>> /\ afterPath[1] = "?"
                                THEN Some(percent_encode(SubSeq(afterPath, 2, hash - 1)))
                                ELSE None,
                      fragment |-> IF hash <= Len(afterPath)
                                   THEN Some(SubSeq(afterPath, hash + 1, Len(afterPath)))
                                   ELSE None]]

\* Result::unwrap: the value, or a panic.
unwrap(result) ==
    IF result.ok THEN [panicked |-> FALSE, value |-> result.value]
    ELSE [panicked |-> TRUE]

\* Url::as_str: the serialization, which is what == on Url compares.
as_str(url) ==
    <<url.scheme, ":", "/", "/">> \o url.host
        \o Concat([i \in 1..Len(url.path) |-> <<"/">> \o url.path[i]])
        \o (IF IsSome(url.query) THEN <<"?">> \o Unwrap(url.query) ELSE <<>>)
        \o (IF IsSome(url.fragment) THEN <<"#">> \o Unwrap(url.fragment) ELSE <<>>)

\* Url::query_pairs_mut: a URL without a query gets an empty one ("?"); the
\* fragment is set aside and put back after the pairs.
query_pairs_mut(url) ==
    [url EXCEPT !.query = IF IsSome(@) THEN @ ELSE Some(<<>>)]

\* A serializer that leaves every byte as it is.
byte_serialize_unencoded(text) == text

\* form_urlencoded::byte_serialize: letters, digits, "*", "-", "." and "_" as
\* they are, a space as "+", every other byte percent-encoded.
byte_serialize(text) ==
    [i \in 1..Len(text) |->
        CASE text[i] = "," -> "%2C"
          [] text[i] = "/" -> "%2F"
          [] text[i] = "?" -> "%3F"
          [] text[i] = "#" -> "%23"
          [] text[i] = "&" -> "%26"
          [] text[i] = "=" -> "%3D"
          [] text[i] = QUOTE -> "%22"
          [] text[i] = " " -> "+"
          [] OTHER -> text[i]]

\* Serializer::append_pair on the URL's query: "&" first unless the query is
\* empty so far, then name=value, both byte-serialized.
append_pair(url, name, value) ==
    [url EXCEPT !.query =
        Some(Unwrap(@) \o (IF Unwrap(@) # <<>> THEN <<"&">> ELSE <<>>)
             \o byte_serialize(name) \o <<"=">> \o byte_serialize(value))]

\* The f64 literals of the models, as written in the source text.
F64Literals ==
    {"6.66", "66.6", "-180.0", "90.0", "0.0", "0.3", "-0.05", "1e-7",
     "0.00000762939453125", "0.0000228881835937500", "1e22"}

\* The f64 that a literal denotes: the nearest binary64 value, as sign, odd
\* integer mantissa (its decimal digits) and power of two.
f64_of(x) ==
    CASE x = "6.66" ->
          [neg |-> FALSE, mant |-> <<1, 8, 7, 4, 6, 2, 3, 3, 4, 4, 8, 9, 2, 9, 6, 9>>, exp |-> -48]
      [] x = "66.6" ->
          [neg |-> FALSE, mant |-> <<2, 3, 4, 3, 2, 7, 9, 1, 8, 1, 1, 1, 6, 2, 1, 1>>, exp |-> -45]
      [] x = "-180.0" ->
          [neg |-> TRUE, mant |-> <<4, 5>>, exp |-> 2]
      [] x = "90.0" ->
          [neg |-> FALSE, mant |-> <<4, 5>>, exp |-> 1]
      [] x = "0.0" ->
          [neg |-> FALSE, mant |-> <<0>>, exp |-> 0]
      [] x = "0.3" ->
          [neg |-> FALSE, mant |-> <<5, 4, 0, 4, 3, 1, 9, 5, 5, 2, 8, 4, 4, 5, 9, 5>>, exp |-> -54]
      [] x = "-0.05" ->
          [neg |-> TRUE, mant |-> <<3, 6, 0, 2, 8, 7, 9, 7, 0, 1, 8, 9, 6, 3, 9, 7>>, exp |-> -56]
      [] x = "1e-7" ->
          [neg |-> FALSE, mant |-> <<9, 4, 4, 4, 7, 3, 2, 9, 6, 5, 7, 3, 9, 2, 9>>, exp |-> -73]
      [] x = "0.00000762939453125" ->
          [neg |-> FALSE, mant |-> <<1>>, exp |-> -17]
      [] x = "0.0000228881835937500" ->
          [neg |-> FALSE, mant |-> <<3>>, exp |-> -17]
      [] x = "1e22" ->
          [neg |-> FALSE, mant |-> <<2, 3, 8, 4, 1, 8, 5, 7, 9, 1, 0, 1, 5, 6, 2, 5>>, exp |-> 22]

\* Half of the decimal number with digits ds: one more digit after the point.
\* The carry into a digit is the parity of the digit before it.
Halved(ds) ==
    CHOOSE r \in {<<>> \o [i \in 1..(Len(d) + 1) |->
                        ((IF i = 1 THEN 0 ELSE (d[i - 1] % 2) * 10)
                         + (IF i > Len(d) THEN 0 ELSE d[i])) \div 2] : d \in {ds}} : TRUE

\* Twice the decimal integer with digits ds. The carry out of a digit is one
\* when the digit is five or more.
Doubled(ds) ==
    CHOOSE r \in {(IF d[1] >= 5 THEN <<1>> ELSE <<>>)
                  \o [i \in 1..Len(d) |->
                        ((2 * d[i]) % 10)
                        + (IF i < Len(d) /\ d[i + 1] >= 5 THEN 1 ELSE 0)] : d \in {ds}} : TRUE

RECURSIVE Scale(_, _)
\* The digits of ds * 2^e, for e < 0 with -e digits after the point; eight
\* halvings or doublings in one step while that many are left.
Scale(ds, e) ==
    IF e = 0 THEN ds
    ELSE IF e <= -8
    THEN CHOOSE r \in {Scale(h, e + 8) :
             h \in {Halved(Halved(Halved(Halved(Halved(Halved(Halved(Halved(ds))))))))}} : TRUE
    ELSE IF e < 0 THEN CHOOSE r \in {Scale(h, e + 1) : h \in {Halved(ds)}} : TRUE
    ELSE IF e >= 8
    THEN CHOOSE r \in {Scale(d, e - 8) :
             d \in {Doubled(Doubled(Doubled(Doubled(Doubled(Doubled(Doubled(Doubled(ds))))))))}} : TRUE
    ELSE CHOOSE r \in {Scale(d, e - 1) : d \in {Doubled(ds)}} : TRUE

\* The decimal integer with digits ds[1..n], plus one: the nines at the end
\* become zeros and the digit before them goes up, or a one is put in front.
Increment(ds, n) ==
    IF \A i \in 1..n : ds[i] = 9
    THEN <<1>> \o [i \in 1..n |-> 0]
    ELSE <<>> \o [i \in 1..n |->
            IF \A j \in i..n : ds[j] = 9 THEN 0
            ELSE IF \A j \in (i + 1)..n : ds[j] = 9 THEN ds[i] + 1
            ELSE ds[i]]

\* format_exact: ds, with point digits after the point, rounded half to even
\* to precision digits after the point, zeros added where ds has fewer.
Rounded(ds, point, precision) ==
    IF point <= precision
    THEN ds \o [i \in 1..(precision - point) |-> 0]
    ELSE IF \/ ds[Len(ds) - point + precision + 1] > 5
            \/ /\ ds[Len(ds) - point + precision + 1] = 5
               /\ \/ \E i \in (Len(ds) - point + precision + 2)..Len(ds) : ds[i] # 0
                  \/ ds[Len(ds) - point + precision] % 2 = 1
    THEN Increment(ds, Len(ds) - point + precision)
    ELSE SubSeq(ds, 1, Len(ds) - point + precision)

\* ds without its leading zeros, keeping at least keep digits.
StripZeros(ds, keep) ==
    SubSeq(ds, CHOOSE i \in 1..Len(ds) :
                   /\ ds[i] # 0 \/ i = Len(ds) - keep + 1
                   /\ \A j \in 1..(i - 1) : ds[j] = 0 /\ j < Len(ds) - keep + 1,
           Len(ds))

DigitChar == <<"0", "1", "2", "3", "4", "5", "6", "7", "8", "9">>

\* The text of the digits ds with precision of them after the point: the
\* sign, the integral digits, "." and the fractional digits.
FixedText(neg, ds, precision) ==
    (IF neg THEN <<"-">> ELSE <<>>)
    \o [i \in 1..(Len(ds) - precision) |-> DigitChar[ds[i] + 1]]
    \o (IF precision = 0 THEN <<>> ELSE <<".">>)
    \o [i \in 1..precision |-> DigitChar[ds[Len(ds) - precision + i] + 1]]

\* float_to_decimal_exact: a finite f64 in fixed notation with precision
\* digits after the point, never in exponent notation.
fmt_fixed(x, precision) ==
    CHOOSE text \in {FixedText(x.neg, StripZeros(r, precision + 1), precision) :
                       r \in {Rounded(s, IF x.exp < 0 THEN -x.exp ELSE 0, precision) :
                               s \in {Scale(x.mant, x.exp)}}} : TRUE

\* The texts of the literals, each computed once.
Formatted16 == [x \in F64Literals |-> fmt_fixed(f64_of(x), 16)] @@ <<>>

\* format!("{:.16}") of an f64: fixed notation for a finite value, the name
\* of the value for NaN and the infinities.
fmt_f64_16(x) ==
    IF x \in {"NaN", "inf", "-inf"} THEN <<x>> ELSE Formatted16[x]

\* format!("{}") of a u64.
fmt_u64(t) ==
    CASE t = 666 -> <<"666">>
      [] t = 0 -> <<"0">>

\* ------------------------------------------------- ForecastRequestBuilder

\* A constructor that stores the coordinates swapped.
ForecastRequest_new_swapped(api_key, latitude, longitude, url, exclude, extend, lang, units) ==
    [api_key |-> api_key, latitude |-> longitude, longitude |-> latitude,
     url |-> url, exclude |-> exclude, extend |-> extend, lang |-> lang,
     units |-> units]

ForecastRequest_new(api_key, latitude, longitude, url, exclude, extend, lang, units) ==
    [api_key |-> api_key, latitude |-> latitude, longitude |-> longitude,
     url |-> url, exclude |-> exclude, extend |-> extend, lang |-> lang,
     units |-> units]

ForecastRequestBuilder_new(api_key, latitude, longitude) ==
    [api_key |-> api_key, latitude |-> latitude, longitude |-> longitude,
     exclude |-> <<>>, extend |-> None, lang |-> None, units |-> None]

\* self.exclude.push(exclude_block)
ForecastRequestBuilder_exclude_block(self, exclude_block) ==
    [self EXCEPT !.exclude = Append(@, exclude_block)]

\* An exclude_blocks that copies the tags and leaves the caller's vector as it
\* is.
ForecastRequestBuilder_exclude_blocks_copying(self, exclude_blocks) ==
    [self |-> [self EXCEPT !.exclude = @ \o exclude_blocks],
     exclude_blocks |-> exclude_blocks]

\* self.exclude.append(exclude_blocks): the builder, and the caller's vector,
\* which Vec::append leaves empty.
ForecastRequestBuilder_exclude_blocks(self, exclude_blocks) ==
    [self |-> [self EXCEPT !.exclude = @ \o exclude_blocks],
     exclude_blocks |-> <<>>]

ForecastRequestBuilder_extend(self, extend) ==
    [self EXCEPT !.extend = Some(extend)]

\* A lang that also forgets the units.
ForecastRequestBuilder_lang_resetting_units(self, lang) ==
    [self EXCEPT !.lang = Some(lang), !.units = None]

ForecastRequestBuilder_lang(self, lang) ==
    [self EXCEPT !.lang = Some(lang)]

\* A units that takes effect only while no language is set.
ForecastRequestBuilder_units_unless_lang(self, units) ==
    IF IsSome(self.lang) THEN self ELSE [self EXCEPT !.units = Some(units)]

ForecastRequestBuilder_units(self, units) ==
    [self EXCEPT !.units = Some(units)]

\* format!("{base}/{key}/{lat:.16},{long:.16}", ..)
ForecastRequestBuilder_url_string(self) ==
    FORECAST_URL \o <<"/">> \o self.api_key \o <<"/">>
        \o fmt_f64_16(self.latitude) \o <<",">> \o fmt_f64_16(self.longitude)

\* join(self.exclude.iter().map(|e| to_string(e).unwrap().trim_matches('"')), ",")
excludes(exclude) ==
    join([i \in 1..Len(exclude) |->
            trim_matches(unwrap(to_string(ExcludeBlockRename(exclude[i]))).value, QUOTE)],
         ",")

\* if !self.exclude.is_empty() { query_pairs.append_pair(EXCLUDE, &excludes) }
append_exclude(url, exclude) ==
    IF exclude # <<>> THEN append_pair(url, EXCLUDE, excludes(exclude)) ELSE url

\* if let &Some(ref extend) = &self.extend { query_pairs.append_pair(EXTEND, ..) }
append_extend(url, extend) ==
    IF IsSome(extend)
    THEN append_pair(url, EXTEND,
             trim_matches(unwrap(to_string(ExtendByRename(Unwrap(extend)))).value, QUOTE))
    ELSE url

\* if let &Some(ref lang) = &self.lang { query_pairs.append_pair(LANG, ..) }
append_lang(url, lang) ==
    IF IsSome(lang)
    THEN append_pair(url, LANG,
             trim_matches(unwrap(to_string(LangRename(Unwrap(lang)))).value, QUOTE))
    ELSE url

\* if let &Some(ref units) = &self.units { query_pairs.append_pair(UNITS, ..) }
append_units(url, units) ==
    IF IsSome(units)
    THEN append_pair(url, UNITS,
             trim_matches(unwrap(to_string(UnitsRename(Unwrap(units)))).value, QUOTE))
    ELSE url

\* Whether one of the unwraps of build_url panics.
ForecastRequestBuilder_build_url_panics(self) ==
    \/ unwrap(Url_parse(ForecastRequestBuilder_url_string(self))).panicked
    \/ \E i \in 1..Len(self.exclude) :
          unwrap(to_string(ExcludeBlockRename(self.exclude[i]))).panicked
    \/ IsSome(self.extend) /\ unwrap(to_string(ExtendByRename(Unwrap(self.extend)))).panicked
    \/ IsSome(self.lang) /\ unwrap(to_string(LangRename(Unwrap(self.lang)))).panicked
    \/ IsSome(self.units) /\ unwrap(to_string(UnitsRename(Unwrap(self.units)))).panicked

\* The URL of the request: the parsed url_string with the pairs appended.
ForecastRequestBuilder_build_url(self) ==
    append_units(
        append_lang(
            append_extend(
                append_exclude(
                    query_pairs_mut(
                        unwrap(Url_parse(ForecastRequestBuilder_url_string(self))).value),
                    self.exclude),
                self.extend),
            self.lang),
        self.units)

\* build(self): the request, or the panic of build_url.
ForecastRequestBuilder_build(self) ==
    IF ForecastRequestBuilder_build_url_panics(self)
    THEN [panicked |-> TRUE]
    ELSE [panicked |-> FALSE,
          value |-> ForecastRequest_new(self.api_key, self.latitude, self.longitude,
                        ForecastRequestBuilder_build_url(self), self.exclude,
                        self.extend, self.lang, self.units)]

\* ---------------------------------------------- TimeMachineRequestBuilder

TimeMachineRequest_new(api_key, latitude, longitude, time, url, exclude, lang, units) ==
    [api_key |-> api_key, latitude |-> latitude, longitude |-> longitude,
     time |-> time, url |-> url, exclude |-> exclude, lang |-> lang,
     units |-> units]

TimeMachineRequestBuilder_new(api_key, latitude, longitude, time) ==
    [api_key |-> api_key, latitude |-> latitude, longitude |-> longitude,
     time |-> time, exclude |-> <<>>, lang |-> None, units |-> None]

TimeMachineRequestBuilder_exclude_block(self, exclude_block) ==
    [self EXCEPT !.exclude = Append(@, exclude_block)]

\* An exclude_blocks that puts the new tags in front of the old ones.
TimeMachineRequestBuilder_exclude_blocks_prepending(self, exclude_blocks) ==
    [self |-> [self EXCEPT !.exclude = exclude_blocks \o @],
     exclude_blocks |-> <<>>]

TimeMachineRequestBuilder_exclude_blocks(self, exclude_blocks) ==
    [self |-> [self EXCEPT !.exclude = @ \o exclude_blocks],
     exclude_blocks |-> <<>>]

TimeMachineRequestBuilder_lang(self, lang) ==
    [self EXCEPT !.lang = Some(lang)]

TimeMachineRequestBuilder_units(self, units) ==
    [self EXCEPT !.units = Some(units)]

\* format!("{base}/{key}/{lat:.16},{long:.16},{time}", ..)
TimeMachineRequestBuilder_url_string(self) ==
    FORECAST_URL \o <<"/">> \o self.api_key \o <<"/">>
        \o fmt_f64_16(self.latitude) \o <<",">> \o fmt_f64_16(self.longitude)
        \o <<",">> \o fmt_u64(self.time)

TimeMachineRequestBuilder_build_url_panics(self) ==
    \/ unwrap(Url_parse(TimeMachineRequestBuilder_url_string(self))).panicked
    \/ \E i \in 1..Len(self.exclude) :
          unwrap(to_string(ExcludeBlockRename(self.exclude[i]))).panicked
    \/ IsSome(self.lang) /\ unwrap(to_string(LangRename(Unwrap(self.lang)))).panicked
    \/ IsSome(self.units) /\ unwrap(to_string(UnitsRename(Unwrap(self.units)))).panicked

TimeMachineRequestBuilder_build_url(self) ==
    append_units(
        append_lang(
            append_exclude(
                query_pairs_mut(
                    unwrap(Url_parse(TimeMachineRequestBuilder_url_string(self))).value),
                self.exclude),
            self.lang),
        self.units)

TimeMachineRequestBuilder_build(self) ==
    IF TimeMachineRequestBuilder_build_url_panics(self)
    THEN [panicked |-> TRUE]
    ELSE [panicked |-> FALSE,
          value |-> TimeMachineRequest_new(self.api_key, self.latitude, self.longitude,
                        self.time, TimeMachineRequestBuilder_build_url(self),
                        self.exclude, self.lang, self.units)]


\* ------------------------------------------------- response data model

Icon ==
    {"ClearDay", "ClearNight", "Rain", "Snow", "Sleet", "Wind", "Fog", "Cloudy", "PartlyCloudyDay", "PartlyCloudyNight", "Hail", "Thunderstorm", "Tornado"}

\* #[serde(rename = ..)] of Icon.
IconRename(v) ==
    CASE v = "ClearDay" -> "clear-day"
      [] v = "ClearNight" -> "clear-night"
      [] v = "Rain" -> "rain"
      [] v = "Snow" -> "snow"
      [] v = "Sleet" -> "sleet"
      [] v = "Wind" -> "wind"
      [] v = "Fog" -> "fog"
      [] v = "Cloudy" -> "cloudy"
      [] v = "PartlyCloudyDay" -> "partly-cloudy-day"
      [] v = "PartlyCloudyNight" -> "partly-cloudy-night"
      [] v = "Hail" -> "hail"
      [] v = "Thunderstorm" -> "thunderstorm"
      [] v = "Tornado" -> "tornado"

PrecipType ==
    {"Rain", "Snow", "Sleet"}

\* A PrecipType whose Sleet is written as Snow is.
PrecipTypeRename_sleet_as_snow(v) ==
    CASE v = "Rain" -> "rain"
      [] v = "Snow" -> "snow"
      [] v = "Sleet" -> "snow"

\* #[serde(rename = ..)] of PrecipType.
PrecipTypeRename(v) ==
    CASE v = "Rain" -> "rain"
      [] v = "Snow" -> "snow"
      [] v = "Sleet" -> "sleet"

Severity ==
    {"Advisory", "Watch", "Warning"}

\* #[serde(rename = ..)] of Severity.
SeverityRename(v) ==
    CASE v = "Advisory" -> "advisory"
      [] v = "Watch" -> "watch"
      [] v = "Warning" -> "warning"

\* The fields of struct DataPoint: the field's name, its name on the wire
\* (#[serde(rename = ..)], or the field's name), its type (inside Option<..>
\* when opt).
DataPoint_fields ==
    <<[field |-> "apparent_temperature", wire |-> "apparentTemperature", ty |-> "f64", opt |-> TRUE],
      [field |-> "apparent_temperature_max", wire |-> "apparentTemperatureMax", ty |-> "f64", opt |-> TRUE],
      [field |-> "apparent_temperature_max_time", wire |-> "apparentTemperatureMaxTime", ty |-> "u64", opt |-> TRUE],
      [field |-> "apparent_temperature_min", wire |-> "apparentTemperatureMin", ty |-> "f64", opt |-> TRUE],
      [field |-> "apparent_temperature_min_time", wire |-> "apparentTemperatureMinTime", ty |-> "u64", opt |-> TRUE],
      [field |-> "cloud_cover", wire |-> "cloudCover", ty |-> "f64", opt |-> TRUE],
      [field |-> "dew_point", wire |-> "dewPoint", ty |-> "f64", opt |-> TRUE],
      [field |-> "humidity", wire |-> "humidity", ty |-> "f64", opt |-> TRUE],
      [field |-> "icon", wire |-> "icon", ty |-> "Icon", opt |-> TRUE],
      [field |-> "moon_phase", wire |-> "moonPhase", ty |-> "f64", opt |-> TRUE],
      [field |-> "nearest_storm_bearing", wire |-> "nearestStormBearing", ty |-> "f64", opt |-> TRUE],
      [field |-> "nearest_storm_distance", wire |-> "nearestStormDistance", ty |-> "f64", opt |-> TRUE],
      [field |-> "ozone", wire |-> "ozone", ty |-> "f64", opt |-> TRUE],
      [field |-> "precip_accumulation", wire |-> "precipAccumulation", ty |-> "f64", opt |-> TRUE],
      [field |-> "precip_intensity", wire |-> "precipIntensity", ty |-> "f64", opt |-> TRUE],
      [field |-> "precip_intensity_max", wire |-> "precipIntensityMax", ty |-> "f64", opt |-> TRUE],
      [field |-> "precip_intensity_max_time", wire |-> "precipIntensityMaxTime", ty |-> "u64", opt |-> TRUE],
      [field |-> "precip_probability", wire |-> "precipProbability", ty |-> "f64", opt |-> TRUE],
      [field |-> "precip_type", wire |-> "precipType", ty |-> "PrecipType", opt |-> TRUE],
      [field |-> "pressure", wire |-> "pressure", ty |-> "f64", opt |-> TRUE],
      [field |-> "summary", wire |-> "summary", ty |-> "String", opt |-> TRUE],
      [field |-> "sunrise_time", wire |-> "sunriseTime", ty |-> "u64", opt |-> TRUE],
      [field |-> "sunset_time", wire |-> "sunsetTime", ty |-> "u64", opt |-> TRUE],
      [field |-> "temperature", wire |-> "temperature", ty |-> "f64", opt |-> TRUE],
      [field |-> "temperature_max", wire |-> "temperatureMax", ty |-> "f64", opt |-> TRUE],
      [field |-> "temperature_max_time", wire |-> "temperatureMaxTime", ty |-> "u64", opt |-> TRUE],
      [field |-> "temperature_min", wire |-> "temperatureMin", ty |-> "f64", opt |-> TRUE],
      [field |-> "temperature_min_time", wire |-> "temperatureMinTime", ty |-> "u64", opt |-> TRUE],
      [field |-> "time", wire |-> "time", ty |-> "u64", opt |-> FALSE],
      [field |-> "visibility", wire |-> "visibility", ty |-> "f64", opt |-> TRUE],
      [field |-> "wind_bearing", wire |-> "windBearing", ty |-> "f64", opt |-> TRUE],
      [field |-> "wind_gust", wire |-> "windGust", ty |-> "f64", opt |-> TRUE],
      [field |-> "wind_gust_time", wire |-> "windGustTime", ty |-> "u64", opt |-> TRUE],
      [field |-> "wind_speed", wire |-> "windSpeed", ty |-> "f64", opt |-> TRUE]>>

\* The fields of struct DataBlock.
DataBlock_fields ==
    <<[field |-> "data", wire |-> "data", ty |-> "Vec<DataPoint>", opt |-> FALSE],
      [field |-> "summary", wire |-> "summary", ty |-> "String", opt |-> TRUE],
      [field |-> "icon", wire |-> "icon", ty |-> "Icon", opt |-> TRUE]>>

\* The fields of an Alert whose title is an Option as well.
Alert_fields_optional_title ==
    <<[field |-> "description", wire |-> "description", ty |-> "String", opt |-> FALSE],
      [field |-> "expires", wire |-> "expires", ty |-> "u64", opt |-> TRUE],
      [field |-> "regions", wire |-> "regions", ty |-> "Vec<String>", opt |-> FALSE],
      [field |-> "severity", wire |-> "severity", ty |-> "Severity", opt |-> FALSE],
      [field |-> "time", wire |-> "time", ty |-> "u64", opt |-> FALSE],
      [field |-> "title", wire |-> "title", ty |-> "String", opt |-> TRUE],
      [field |-> "uri", wire |-> "uri", ty |-> "String", opt |-> FALSE]>>

\* The fields of struct Alert.
Alert_fields ==
    <<[field |-> "description", wire |-> "description", ty |-> "String", opt |-> FALSE],
      [field |-> "expires", wire |-> "expires", ty |-> "u64", opt |-> TRUE],
      [field |-> "regions", wire |-> "regions", ty |-> "Vec<String>", opt |-> FALSE],
      [field |-> "severity", wire |-> "severity", ty |-> "Severity", opt |-> FALSE],
      [field |-> "time", wire |-> "time", ty |-> "u64", opt |-> FALSE],
      [field |-> "title", wire |-> "title", ty |-> "String", opt |-> FALSE],
      [field |-> "uri", wire |-> "uri", ty |-> "String", opt |-> FALSE]>>

\* The fields of struct Flags.
Flags_fields ==
    <<[field |-> "darksky_unavailable", wire |-> "darksky-unavailable", ty |-> "String", opt |-> TRUE],
      [field |-> "sources", wire |-> "sources", ty |-> "Vec<String>", opt |-> FALSE],
      [field |-> "units", wire |-> "units", ty |-> "Units", opt |-> FALSE]>>

\* The fields of struct ApiResponse.
ApiResponse_fields ==
    <<[field |-> "latitude", wire |-> "latitude", ty |-> "f64", opt |-> FALSE],
      [field |-> "longitude", wire |-> "longitude", ty |-> "f64", opt |-> FALSE],
      [field |-> "timezone", wire |-> "timezone", ty |-> "String", opt |-> FALSE],
      [field |-> "currently", wire |-> "currently", ty |-> "DataPoint", opt |-> TRUE],
      [field |-> "minutely", wire |-> "minutely", ty |-> "DataBlock", opt |-> TRUE],
      [field |-> "hourly", wire |-> "hourly", ty |-> "DataBlock", opt |-> TRUE],
      [field |-> "daily", wire |-> "daily", ty |-> "DataBlock", opt |-> TRUE],
      [field |-> "alerts", wire |-> "alerts", ty |-> "Vec<Alert>", opt |-> TRUE],
      [field |-> "flags", wire |-> "flags", ty |-> "Flags", opt |-> TRUE]>>

StructTypes == {"DataPoint", "DataBlock", "Alert", "Flags", "ApiResponse"}

EnumTypes == {"Icon", "PrecipType", "Units", "Severity"}

VecTypes == {"Vec<DataPoint>", "Vec<Alert>", "Vec<String>"}

\* The fields of a struct.
Fields(ty) ==
    CASE ty = "DataPoint" -> DataPoint_fields
      [] ty = "DataBlock" -> DataBlock_fields
      [] ty = "Alert" -> Alert_fields
      [] ty = "Flags" -> Flags_fields
      [] ty = "ApiResponse" -> ApiResponse_fields

\* The variants of an enum that derives Deserialize.
Variants(ty) ==
    CASE ty = "Icon" -> Icon
      [] ty = "PrecipType" -> PrecipType
      [] ty = "Units" -> Units
      [] ty = "Severity" -> Severity

\* The wire string of a variant.
Rename(ty, v) ==
    CASE ty = "Icon" -> IconRename(v)
      [] ty = "PrecipType" -> PrecipTypeRename(v)
      [] ty = "Units" -> UnitsRename(v)
      [] ty = "Severity" -> SeverityRename(v)

\* The type of the elements of a Vec.
ElementType(ty) ==
    CASE ty = "Vec<DataPoint>" -> "DataPoint"
      [] ty = "Vec<Alert>" -> "Alert"
      [] ty = "Vec<String>" -> "String"

FieldNames(ty) == {Fields(ty)[i].field : i \in 1..Len(Fields(ty))}

\* The field of struct ty named name.
FieldOf(ty, name) ==
    Fields(ty)[CHOOSE i \in 1..Len(Fields(ty)) : Fields(ty)[i].field = name]

\* ---------------------------------------------------------------- serde_json
\* A JSON value is [t |-> "null"], [t |-> "num", v |-> an integer],
\* [t |-> "str", v |-> a string], [t |-> "arr", v |-> a sequence of values] or
\* [t |-> "obj", v |-> a function from keys to values].  Writing a value as
\* text and reading the text back is serde_json's own round trip and gives the
\* same value; what the structs and enums of this crate decide is which value
\* is written for a struct and which struct is read from a value.

Null == [t |-> "null"]

Num(n) == [t |-> "num", v |-> n]

Str(x) == [t |-> "str", v |-> x]

Arr(xs) == [t |-> "arr", v |-> xs]

Obj(f) == [t |-> "obj", v |-> f]

Ok(v) == [ok |-> TRUE, value |-> v]

Err(msg) == [ok |-> FALSE, err |-> msg]

\* The key a field is written under, by its rust name alone.
SerializeName_unrenamed(f) == f.field

\* The key a field is written under: #[serde(rename = ..)] names both
\* directions.
SerializeName(f) == f.wire

\* The key a field is read from.
DeserializeName(f) == f.wire

\* A key of the object is missing, and every field reads as None.
missing_field_lenient(f) == Ok(None)

\* A key of the object is missing, and everything is an error.
missing_field_strict(f) == Err("missing field")

\* A field whose key the object does not hold: None for an Option, an error
\* for any other type.
missing_field(f) == IF f.opt THEN Ok(None) ELSE Err("missing field")

\* An enum that reads a string it has no variant for as its first variant.
visit_str_default(ty, s) ==
    Ok(IF \E v \in Variants(ty) : Rename(ty, v) = s
       THEN CHOOSE v \in Variants(ty) : Rename(ty, v) = s
       ELSE CHOOSE v \in Variants(ty) : TRUE)

\* The derived Deserialize of an enum of unit variants, on the string s: the
\* variant renamed to s, or the error "unknown variant".
visit_str(ty, s) ==
    IF \E v \in Variants(ty) : Rename(ty, v) = s
    THEN Ok(CHOOSE v \in Variants(ty) : Rename(ty, v) = s)
    ELSE Err("unknown variant")

RECURSIVE Deserialize_ok(_, _)

\* The derived Deserialize of type ty accepts the JSON value j.  A struct reads
\* each of its fields from the key that names it: a key the object does not
\* hold is a missing field, null under the key of an Option is None, and keys
\* that name no field are ignored.
Deserialize_ok(ty, j) ==
    CASE ty = "f64" -> j.t = "num"
      [] ty = "u64" -> j.t = "num" /\ j.v >= 0
      [] ty = "String" -> j.t = "str"
      [] ty \in EnumTypes ->
            j.t = "str" /\ visit_str(ty, j.v).ok
      [] ty \in VecTypes ->
            j.t = "arr" /\ \A i \in 1..Len(j.v) : Deserialize_ok(ElementType(ty), j.v[i])
      [] ty \in StructTypes ->
            j.t = "obj" /\
            \A i \in 1..Len(Fields(ty)) :
                IF DeserializeName(Fields(ty)[i]) \notin DOMAIN j.v
                THEN missing_field(Fields(ty)[i]).ok
                ELSE IF Fields(ty)[i].opt /\ j.v[DeserializeName(Fields(ty)[i])].t = "null"
                THEN TRUE
                ELSE Deserialize_ok(Fields(ty)[i].ty, j.v[DeserializeName(Fields(ty)[i])])

RECURSIVE Deserialize_value(_, _)
RECURSIVE DeserializeField(_, _)

\* One field of a struct, read from the object obj (keys to values).
DeserializeField(f, obj) ==
    IF DeserializeName(f) \notin DOMAIN obj THEN missing_field(f).value
    ELSE IF f.opt
    THEN IF obj[DeserializeName(f)].t = "null" THEN None
         ELSE Some(Deserialize_value(f.ty, obj[DeserializeName(f)]))
    ELSE Deserialize_value(f.ty, obj[DeserializeName(f)])

\* What the derived Deserialize of type ty reads from a JSON value j that it
\* accepts.
Deserialize_value(ty, j) ==
    CASE ty \in {"f64", "u64", "String"} -> j.v
      [] ty \in EnumTypes -> visit_str(ty, j.v).value
      [] ty \in VecTypes ->
            [i \in 1..Len(j.v) |-> Deserialize_value(ElementType(ty), j.v[i])]
      [] ty \in StructTypes ->
            [name \in FieldNames(ty) |-> DeserializeField(FieldOf(ty, name), j.v)]

\* serde_json::from_str::<ty>: Ok of the value read, or the error.
Deserialize(ty, j) ==
    IF Deserialize_ok(ty, j) THEN Ok(Deserialize_value(ty, j)) ELSE Err("invalid")

\* All enums of the crate: the ones of the request builders derive Serialize
\* only.
AllEnums == EnumTypes \cup {"ExcludeBlock", "ExtendBy", "Lang"}

\* The variants of any enum of the crate.
EnumVariants(ty) ==
    CASE ty \in EnumTypes -> Variants(ty)
      [] ty = "ExcludeBlock" -> ExcludeBlock
      [] ty = "ExtendBy" -> ExtendBy
      [] ty = "Lang" -> Lang

\* The #[serde(rename = ..)] of a variant of any enum of the crate.
EnumRename(ty, v) ==
    CASE ty \in EnumTypes -> Rename(ty, v)
      [] ty = "ExcludeBlock" -> ExcludeBlockRename(v)
      [] ty = "ExtendBy" -> ExtendByRename(v)
      [] ty = "Lang" -> LangRename(v)

\* serde_json::from_str::<ty> on the text of a JSON string.
from_str(ty, text) ==
    IF Len(text) = 3 /\ text[1] = QUOTE /\ text[3] = QUOTE
    THEN Deserialize(ty, Str(text[2]))
    ELSE Err("expected a string")

RECURSIVE Serialize(_, _)
RECURSIVE SerializeField(_, _)

\* One field of the struct value sv: null for None.
SerializeField(f, sv) ==
    IF f.opt
    THEN IF IsSome(sv[f.field]) THEN Serialize(f.ty, Unwrap(sv[f.field])) ELSE Null
    ELSE Serialize(f.ty, sv[f.field])

\* The derived Serialize of type ty: every field of a struct is written.
Serialize(ty, x) ==
    CASE ty \in {"f64", "u64"} -> Num(x)
      [] ty = "String" -> Str(x)
      [] ty \in EnumTypes -> Str(Rename(ty, x))
      [] ty \in VecTypes -> Arr([i \in 1..Len(x) |-> Serialize(ElementType(ty), x[i])])
      [] ty \in StructTypes ->
            Obj([key \in {SerializeName(Fields(ty)[i]) : i \in 1..Len(Fields(ty))} |->
                    SerializeField(
                        Fields(ty)[CHOOSE i \in 1..Len(Fields(ty)) :
                                      SerializeName(Fields(ty)[i]) = key],
                        x)])

\* --------------------------------------------------------------- ApiClient
\* reqwest::Client is the transport the caller constructs and lends to the
\* ApiClient.  Of its configuration the model keeps gzip: when it is on, send
\* asks for gzip unless the request already names an Accept-Encoding, and
\* decodes a body that comes back gzip-encoded.

Client_new(gzip) == [gzip |-> gzip]

ApiClient_new(client) == [client |-> client]

\* impl IntoUrl for ForecastRequest
ForecastRequest_into_url(self) == Ok(self.url)

\* impl IntoUrl for TimeMachineRequest
TimeMachineRequest_into_url(self) == Ok(self.url)

\* AcceptEncoding(vec![qitem(Encoding::Gzip)])
AcceptEncoding_gzip == [name |-> "Accept-Encoding", value |-> "gzip"]

HasHeader(headers, name) == \E i \in 1..Len(headers) : headers[i].name = name

\* Client::get: a RequestBuilder for GET on the url, no header set.
Client_get(client, url) ==
    [client |-> client, method |-> "GET", url |-> url, headers |-> <<>>]

\* RequestBuilder::header: the header is set, in place of one of its name.
RequestBuilder_header(rb, header) ==
    [rb EXCEPT !.headers =
        Append(SelectSeq(@, LAMBDA h : h.name # header.name), header)]

\* The headers send puts on the wire.
WireHeaders(rb) ==
    IF rb.client.gzip /\ ~HasHeader(rb.headers, "Accept-Encoding")
    THEN Append(rb.headers, AcceptEncoding_gzip)
    ELSE rb.headers

\* What the transport answers: an error, or a response with a status and a
\* body that is gzip-encoded or not.
Transport(outcome) ==
    IF outcome.ok
    THEN Ok([status |-> outcome.status, content_encoding |-> outcome.encoding])
    ELSE Err("io")

\* The response as the client hands it on: a gzip body is decoded when the
\* client's gzip is on.
Decoded(client, result) ==
    IF result.ok /\ client.gzip /\ result.value.content_encoding = "gzip"
    THEN Ok([result.value EXCEPT !.content_encoding = "identity"])
    ELSE result

\* RequestBuilder::send: one request on the wire, and the transport's answer
\* to it.  explicit are the headers that were set on the builder.
RequestBuilder_send(rb, outcome) ==
    [wire |-> <<[method |-> rb.method, url |-> rb.url.value,
                 headers |-> WireHeaders(rb), explicit |-> rb.headers]>>,
     result |-> Decoded(rb.client, Transport(outcome))]

\* A get_forecast that sends again after an error and makes an error of a
\* status that is not 2xx.
ApiClient_get_forecast_checked(self, request, outcome) ==
    [wire |->
        RequestBuilder_send(Client_get(self.client, ForecastRequest_into_url(request)),
                            outcome).wire
        \o (IF outcome.ok THEN <<>>
            ELSE RequestBuilder_send(
                     Client_get(self.client, ForecastRequest_into_url(request)),
                     outcome).wire),
     result |-> IF outcome.ok /\ outcome.status >= 300 THEN Err("status")
                ELSE RequestBuilder_send(
                         Client_get(self.client, ForecastRequest_into_url(request)),
                         outcome).result]

\* ApiClient::get_forecast
ApiClient_get_forecast(self, request, outcome) ==
    RequestBuilder_send(
        RequestBuilder_header(Client_get(self.client, ForecastRequest_into_url(request)),
                              AcceptEncoding_gzip),
        outcome)

\* ApiClient::get_time_machine
ApiClient_get_time_machine(self, request, outcome) ==
    RequestBuilder_send(
        RequestBuilder_header(Client_get(self.client, TimeMachineRequest_into_url(request)),
                              AcceptEncoding_gzip),
        outcome)

\* ------------------------------------------------------------------ inputs

\* The API keys a caller passes: the tests' key, the empty string, and keys
\* holding characters that URL syntax gives a meaning to.
ApiKeys ==
    {<<"some_api_key">>, <<>>, <<"?">>, <<"#">>, <<"k", "/", "k">>, <<".", ".">>,
     <<"k", "?", "lang", "=">>, <<"k", "?", "exclude", "=">>}

\* (latitude, longitude) pairs.
Coordinates == {<<"6.66", "66.6">>}

Times == {666}

ExcludeBlocksIn == {"Hourly", "Daily", "Alerts"}

LangsIn == {"Arabic", "Catalan"}

UnitsIn == {"Imperial", "CA"}

\* The sequences over S of the lengths lo..hi.
SeqsOf(S, lo, hi) == UNION {[1..n -> S] : n \in lo..hi}

\* How the document holds an optional field: its key is left out
\* ("missing"), holds null ("null") or holds a value ("given").
Modes == {"missing", "null", "given"}

OptionalFields(ty) == {i \in 1..Len(Fields(ty)) : Fields(ty)[i].opt}

\* One optional field of struct ty held in one mode, in every object of the
\* document that is read as ty.
ModsOf(ty) ==
    {[ty |-> ty, field |-> Fields(ty)[i].field, mode |-> m] :
        i \in OptionalFields(ty), m \in Modes}

NoMod == [ty |-> "", field |-> "", mode |-> "given"]

Mods == UNION {ModsOf(ty) : ty \in StructTypes}

\* The fields of struct ty that are no Option.
RequiredFields(ty) == {i \in 1..Len(Fields(ty)) : ~Fields(ty)[i].opt}

NoBad == [kind |-> "none", ty |-> "", field |-> ""]

\* What else is wrong with the document: nothing, or at every place of one
\* enum a string that is no wire string of it, or in every object of one
\* struct no key for one field that is no Option.
Bads ==
    {NoBad}
    \cup {[kind |-> "unknown_variant", ty |-> ty, field |-> ""] : ty \in EnumTypes}
    \cup UNION {{[kind |-> "missing_required", ty |-> ty, field |-> Fields(ty)[i].field] :
                    i \in RequiredFields(ty)} : ty \in StructTypes}

\* The documents read: one optional field anywhere held in mode a, one at the
\* top level in mode b, every other optional field in mode rest, and possibly
\* one defect.  A pick that names a field only to hold it as the rest is held
\* describes the document of another pick and is left out.
Picks ==
    {pick \in [a : Mods \cup {NoMod}, b : ModsOf("ApiResponse") \cup {NoMod},
               rest : Modes, bad : Bads] :
        /\ pick.a = NoMod \/ pick.a.mode # pick.rest
        /\ pick.b = NoMod \/ pick.b.mode # pick.rest
        /\ pick.bad = NoBad \/ pick.a = NoMod}

\* The mode in which the document holds the optional field f of struct ty.
ModeOf(ty, f, pick) ==
    IF pick.a.ty = ty /\ pick.a.field = f.field THEN pick.a.mode
    ELSE IF pick.b.ty = ty /\ pick.b.field = f.field THEN pick.b.mode
    ELSE pick.rest

\* The document holds field f of struct ty in the given mode.
Changed(ty, f, mode, pick) == f.opt /\ ModeOf(ty, f, pick) = mode

\* The document leaves the key of field f of struct ty out.
LeftOut(ty, f, pick) ==
    \/ Changed(ty, f, "missing", pick)
    \/ pick.bad.kind = "missing_required" /\ pick.bad.ty = ty /\ pick.bad.field = f.field

\* The keys of an object that is read as struct ty: the keys of its fields
\* that are not left out, and one key that names no field in a response.
KeysOf(ty, pick) ==
    {Fields(ty)[i].wire : i \in {k \in 1..Len(Fields(ty)) : ~LeftOut(ty, Fields(ty)[k], pick)}}
    \cup (IF ty = "ApiResponse" THEN {"offset"} ELSE {})

\* The index of the field of struct ty that is written under key.
IndexOfWire(ty, key) == CHOOSE i \in 1..Len(Fields(ty)) : Fields(ty)[i].wire = key

RECURSIVE JsonOf(_, _, _)

\* The document's JSON for a value of type ty; numbers are the index tag of
\* the field they stand in.
JsonOf(ty, tag, pick) ==
    CASE ty \in {"f64", "u64"} -> Num(tag)
      [] ty = "String" -> Str("text")
      [] ty \in EnumTypes ->
            IF pick.bad.kind = "unknown_variant" /\ pick.bad.ty = ty
            THEN Str("meteor-shower")
            ELSE Str(Rename(ty, CHOOSE v \in Variants(ty) : TRUE))
      [] ty \in VecTypes -> Arr(<<JsonOf(ElementType(ty), tag, pick)>>)
      [] ty \in StructTypes ->
            Obj([key \in KeysOf(ty, pick) |->
                    IF ty = "ApiResponse" /\ key = "offset" THEN Num(0)
                    ELSE IF Changed(ty, Fields(ty)[IndexOfWire(ty, key)], "null", pick)
                    THEN Null
                    ELSE JsonOf(Fields(ty)[IndexOfWire(ty, key)].ty,
                                IndexOfWire(ty, key), pick)])

\* -------------------------------------------------------------------- state

VARIABLES
    pc,         \* "idle", "building", "built" or "panicked"
    kind,       \* "forecast" or "time_machine": the type of the builder
    builder,    \* Option: the builder the caller owns
    request,    \* Option: the request build() returned
    blocks,     \* the caller's Vec<ExcludeBlock>, lent to exclude_blocks
    hist,       \* history: what the caller passed to the builder so far
    serde,      \* the response document being read, written and read again
    http,       \* the ApiClient, the request it is given and what it returns
    conv        \* an enum variant, the text written for it and what is read back

vars == <<pc, kind, builder, request, blocks, hist, serde, http, conv>>

NoHist ==
    [args |-> <<>>, added |-> <<>>,
     last |-> [extend |-> None, lang |-> None, units |-> None],
     overwrote |-> FALSE, passes |-> 0]

NoSerde ==
    [phase |-> "idle", pick |-> None, doc |-> None, first |-> None,
     text |-> None, again |-> None]

NoConv == [phase |-> "idle", ty |-> "", variant |-> "", text |-> None, back |-> None]

NoHttp ==
    [phase |-> "idle", client |-> None, kind |-> "", request |-> None,
     sent |-> <<>>, answer |-> None, result |-> None]

Init ==
    /\ pc = "idle"
    /\ kind = "forecast"
    /\ builder = None
    /\ request = None
    /\ blocks = <<>>
    /\ hist = NoHist
    /\ serde = NoSerde
    /\ http = NoHttp
    /\ conv = NoConv

\* The exclusions accumulated so far.
Excluded == IF pc = "building" THEN Unwrap(builder).exclude ELSE <<>>

\* let mut blocks = vec![..]
VecNew(v) ==
    /\ pc # "panicked"
    /\ Len(hist.added) + Len(v) <= MaxExclude
    /\ blocks' = v
    /\ hist' = [hist EXCEPT !.passes = 0]
    /\ UNCHANGED <<pc, kind, builder, request, serde, http, conv>>

\* ForecastRequestBuilder::new(api_key, latitude, longitude)
NewForecast(api_key, latitude, longitude) ==
    /\ pc \in {"idle", "built"}
    /\ pc' = "building"
    /\ kind' = "forecast"
    /\ builder' = Some(ForecastRequestBuilder_new(api_key, latitude, longitude))
    /\ request' = None
    /\ hist' = [NoHist EXCEPT !.args = <<api_key, latitude, longitude>>,
                              !.passes = hist.passes]
    /\ UNCHANGED <<blocks, serde, http, conv>>

\* TimeMachineRequestBuilder::new(api_key, latitude, longitude, time)
NewTimeMachine(api_key, latitude, longitude, time) ==
    /\ pc \in {"idle", "built"}
    /\ pc' = "building"
    /\ kind' = "time_machine"
    /\ builder' = Some(TimeMachineRequestBuilder_new(api_key, latitude, longitude, time))
    /\ request' = None
    /\ hist' = [NoHist EXCEPT !.args = <<api_key, latitude, longitude, time>>,
                              !.passes = hist.passes]
    /\ UNCHANGED <<blocks, serde, http, conv>>

\* builder.exclude_block(exclude_block)
ExcludeOne(exclude_block) ==
    /\ pc = "building"
    /\ Len(Excluded) + Len(blocks) < MaxExclude
    /\ builder' = Some(IF kind = "forecast"
                       THEN ForecastRequestBuilder_exclude_block(Unwrap(builder), exclude_block)
                       ELSE TimeMachineRequestBuilder_exclude_block(Unwrap(builder), exclude_block))
    /\ hist' = [hist EXCEPT !.added = Append(@, exclude_block)]
    /\ UNCHANGED <<pc, kind, request, blocks, serde, http, conv>>

\* builder.exclude_blocks(&mut blocks)
ExcludeMany ==
    /\ pc = "building"
    /\ \E r \in {IF kind = "forecast"
                   THEN ForecastRequestBuilder_exclude_blocks(Unwrap(builder), blocks)
                   ELSE TimeMachineRequestBuilder_exclude_blocks(Unwrap(builder), blocks)} :
          /\ builder' = Some(r.self)
          /\ blocks' = r.exclude_blocks
    /\ hist' = [hist EXCEPT !.added = @ \o blocks,
                            !.passes = IF @ < MaxPasses THEN @ + 1 ELSE @]
    /\ UNCHANGED <<pc, kind, request, serde, http, conv>>

\* builder.extend(extend): a ForecastRequestBuilder only
SetExtend(extend) ==
    /\ pc = "building"
    /\ kind = "forecast"
    /\ builder' = Some(ForecastRequestBuilder_extend(Unwrap(builder), extend))
    /\ hist' = [hist EXCEPT !.last.extend = Some(extend),
                            !.overwrote = @ \/ hist.last.extend \notin {None, Some(extend)}]
    /\ UNCHANGED <<pc, kind, request, blocks, serde, http, conv>>

\* builder.lang(lang)
SetLang(lang) ==
    /\ pc = "building"
    /\ builder' = Some(IF kind = "forecast"
                       THEN ForecastRequestBuilder_lang(Unwrap(builder), lang)
                       ELSE TimeMachineRequestBuilder_lang(Unwrap(builder), lang))
    /\ hist' = [hist EXCEPT !.last.lang = Some(lang),
                            !.overwrote = @ \/ hist.last.lang \notin {None, Some(lang)}]
    /\ UNCHANGED <<pc, kind, request, blocks, serde, http, conv>>

\* builder.units(units)
SetUnits(units) ==
    /\ pc = "building"
    /\ builder' = Some(IF kind = "forecast"
                       THEN ForecastRequestBuilder_units(Unwrap(builder), units)
                       ELSE TimeMachineRequestBuilder_units(Unwrap(builder), units))
    /\ hist' = [hist EXCEPT !.last.units = Some(units),
                            !.overwrote = @ \/ hist.last.units \notin {None, Some(units)}]
    /\ UNCHANGED <<pc, kind, request, blocks, serde, http, conv>>

\* builder.build(): the builder is consumed; a panic ends the run.
Build ==
    /\ pc = "building"
    /\ \E r \in {IF kind = "forecast"
                   THEN ForecastRequestBuilder_build(Unwrap(builder))
                   ELSE TimeMachineRequestBuilder_build(Unwrap(builder))} :
          /\ pc' = IF r.panicked THEN "panicked" ELSE "built"
          /\ request' = IF r.panicked THEN None ELSE Some(r.value)
    /\ builder' = None
    /\ UNCHANGED <<kind, blocks, hist, serde, http, conv>>

Next ==
    \/ \E v \in SeqsOf(ExcludeBlocksIn, 1, MaxBlocks) : VecNew(v)
    \/ \E k \in ApiKeys, c \in Coordinates : NewForecast(k, c[1], c[2])
    \/ \E k \in ApiKeys, c \in Coordinates, t \in Times : NewTimeMachine(k, c[1], c[2], t)
    \/ \E b \in ExcludeBlocksIn : ExcludeOne(b)
    \/ ExcludeMany
    \/ \E e \in ExtendBy : SetExtend(e)
    \/ \E l \in LangsIn : SetLang(l)
    \/ \E u \in UnitsIn : SetUnits(u)
    \/ Build

Spec == Init /\ [][Next]_vars

\* --------------------------------------------- reading a response and back
\* tests/integration_test.rs reads a stored response, writes what it read and
\* reads that again.

BuilderVars == <<pc, kind, builder, request, blocks, hist>>

\* A stored response document is opened.
OpenFile(pick) ==
    /\ serde.phase = "idle"
    /\ serde' = [serde EXCEPT !.phase = "opened", !.pick = Some(pick),
                              !.doc = Some(JsonOf("ApiResponse", 0, pick))]
    /\ UNCHANGED <<BuilderVars, http, conv>>

\* serde_json::from_reader(file): the document is read as an ApiResponse.
FromReader ==
    /\ serde.phase = "opened"
    /\ \E r \in {Deserialize("ApiResponse", Unwrap(serde.doc))} :
          serde' = [serde EXCEPT !.phase = IF r.ok THEN "read" ELSE "failed",
                                 !.first = Some(r)]
    /\ UNCHANGED <<BuilderVars, http, conv>>

\* serde_json::to_string(&deserialized_response)
ToJsonString ==
    /\ serde.phase = "read"
    /\ serde' = [serde EXCEPT !.phase = "written",
                    !.text = Some(Serialize("ApiResponse", Unwrap(serde.first).value))]
    /\ UNCHANGED <<BuilderVars, http, conv>>

\* serde_json::from_str(&serialized_response)
FromStr ==
    /\ serde.phase = "written"
    /\ serde' = [serde EXCEPT !.phase = "reread",
                    !.again = Some(Deserialize("ApiResponse", Unwrap(serde.text)))]
    /\ UNCHANGED <<BuilderVars, http, conv>>

NextSerde ==
    \/ \E pick \in Picks : OpenFile(pick)
    \/ FromReader
    \/ ToJsonString
    \/ FromStr

SpecSerde == Init /\ [][NextSerde]_vars

\* ------------------------------------------------------ sending a request
\* The crate's example: a reqwest Client is made and lent to an ApiClient, a
\* request is built, and the ApiClient is asked for it.

\* What the transport may answer: an error, or a status with a body that is
\* gzip-encoded or not.
Outcomes ==
    {[ok |-> FALSE, status |-> 0, encoding |-> "identity"]}
    \cup [ok : {TRUE}, status : {200, 404, 500}, encoding : {"identity", "gzip"}]

\* A server encodes a body with gzip only for a request that asks for it.
Honours(outcome, wire) ==
    outcome.encoding = "gzip" =>
        \A i \in 1..Len(wire) : HasHeader(wire[i].headers, "Accept-Encoding")

\* Client::new() with gzip on or off, and ApiClient::new(&reqwest_client)
ClientNew(gzip) ==
    /\ http.phase = "idle"
    /\ http' = [http EXCEPT !.phase = "client",
                            !.client = Some(ApiClient_new(Client_new(gzip)))]
    /\ UNCHANGED <<BuilderVars, serde, conv>>

\* ForecastRequestBuilder::new(..).exclude_blocks(..).units(..).build()
RequestForecast(api_key, c, v, units) ==
    /\ http.phase = "client"
    /\ http' = [http EXCEPT
          !.phase = "ready", !.kind = "forecast",
          !.request = Some(ForecastRequestBuilder_build(
                ForecastRequestBuilder_units(
                    ForecastRequestBuilder_exclude_blocks(
                        ForecastRequestBuilder_new(api_key, c[1], c[2]), v).self,
                    units)).value)]
    /\ UNCHANGED <<BuilderVars, serde, conv>>

\* TimeMachineRequestBuilder::new(..).exclude_blocks(..).units(..).build()
RequestTimeMachine(api_key, c, time, v, units) ==
    /\ http.phase = "client"
    /\ http' = [http EXCEPT
          !.phase = "ready", !.kind = "time_machine",
          !.request = Some(TimeMachineRequestBuilder_build(
                TimeMachineRequestBuilder_units(
                    TimeMachineRequestBuilder_exclude_blocks(
                        TimeMachineRequestBuilder_new(api_key, c[1], c[2], time), v).self,
                    units)).value)]
    /\ UNCHANGED <<BuilderVars, serde, conv>>

\* api_client.get_forecast(forecast_request): the ApiClient and the request
\* are moved into the call, and no second call is made with them.
GetForecast(outcome) ==
    /\ http.phase = "ready"
    /\ http.kind = "forecast"
    /\ \E r \in {ApiClient_get_forecast(Unwrap(http.client), Unwrap(http.request),
                                        outcome)} :
          /\ Honours(outcome, r.wire)
          /\ http' = [http EXCEPT
                !.phase = "done",
                !.sent = @ \o r.wire,
                !.answer = Some(Decoded(Unwrap(http.client).client, Transport(outcome))),
                !.result = Some(r.result)]
    /\ UNCHANGED <<BuilderVars, serde, conv>>

\* api_client.get_time_machine(time_machine_request)
GetTimeMachine(outcome) ==
    /\ http.phase = "ready"
    /\ http.kind = "time_machine"
    /\ \E r \in {ApiClient_get_time_machine(Unwrap(http.client), Unwrap(http.request),
                                            outcome)} :
          /\ Honours(outcome, r.wire)
          /\ http' = [http EXCEPT
                !.phase = "done",
                !.sent = @ \o r.wire,
                !.answer = Some(Decoded(Unwrap(http.client).client, Transport(outcome))),
                !.result = Some(r.result)]
    /\ UNCHANGED <<BuilderVars, serde, conv>>

NextClient ==
    \/ \E gzip \in BOOLEAN : ClientNew(gzip)
    \/ \E k \in ApiKeys, c \in Coordinates, v \in SeqsOf(ExcludeBlocksIn, 0, 1),
          u \in UnitsIn : RequestForecast(k, c, v, u)
    \/ \E k \in ApiKeys, c \in Coordinates, t \in Times,
          v \in SeqsOf(ExcludeBlocksIn, 0, 1), u \in UnitsIn :
          RequestTimeMachine(k, c, t, v, u)
    \/ \E o \in Outcomes : GetForecast(o)
    \/ \E o \in Outcomes : GetTimeMachine(o)

SpecClient == Init /\ [][NextClient]_vars

\* ------------------------------------------ writing and reading a variant

\* A variant of an enum is taken.
ChooseVariant(ty, v) ==
    /\ conv.phase = "idle"
    /\ conv' = [conv EXCEPT !.phase = "chosen", !.ty = ty, !.variant = v]
    /\ UNCHANGED <<BuilderVars, serde, http>>

\* serde_json::to_string(&variant)
VariantToString ==
    /\ conv.phase = "chosen"
    /\ conv' = [conv EXCEPT !.phase = "written",
                   !.text = Some(to_string(EnumRename(conv.ty, conv.variant)))]
    /\ UNCHANGED <<BuilderVars, serde, http>>

\* serde_json::from_str of the text written, for an enum that derives
\* Deserialize.
VariantFromStr ==
    /\ conv.phase = "written"
    /\ conv.ty \in EnumTypes
    /\ conv' = [conv EXCEPT !.phase = "read",
                   !.back = Some(from_str(conv.ty, unwrap(Unwrap(conv.text)).value))]
    /\ UNCHANGED <<BuilderVars, serde, http>>

NextEnum ==
    \/ \E ty \in AllEnums : \E v \in EnumVariants(ty) : ChooseVariant(ty, v)
    \/ VariantToString
    \/ VariantFromStr

SpecEnum == Init /\ [][NextEnum]_vars

\* ----------------------------------------------- requests at coordinates

\* The coordinate pairs of the requests: every literal as a latitude and as a
\* longitude.
FiniteCoordinates ==
    {c \in F64Literals \X F64Literals : c[1] = "6.66" \/ c[2] = "66.6" \/ c[1] = c[2]}

\* A request of either kind at any of the coordinates, built right away.
NextFmt ==
    \/ \E k \in ApiKeys, c \in FiniteCoordinates : NewForecast(k, c[1], c[2])
    \/ \E k \in ApiKeys, c \in FiniteCoordinates, t \in Times :
          NewTimeMachine(k, c[1], c[2], t)
    \/ Build

SpecFmt == Init /\ [][NextFmt]_vars

\* ------------------------------------------- requests with any tag at all

\* A request of either kind with every variant of ExcludeBlock, ExtendBy, Lang
\* and Units as a tag, and up to MaxTags exclusions.
NextTags ==
    \/ \E k \in ApiKeys, c \in Coordinates : NewForecast(k, c[1], c[2])
    \/ \E k \in ApiKeys, c \in Coordinates, t \in Times : NewTimeMachine(k, c[1], c[2], t)
    \/ \E b \in ExcludeBlock : Len(Excluded) < MaxTags /\ ExcludeOne(b)
    \/ \E e \in ExtendBy : SetExtend(e)
    \/ \E l \in Lang : SetLang(l)
    \/ \E u \in Units : SetUnits(u)
    \/ Build

SpecTags == Init /\ [][NextTags]_vars

\* ----------------------------------------------- reading a URL's query

\* percent-decoding of one token of a query, with "+" for a space.
decode(text) ==
    [i \in 1..Len(text) |->
        CASE text[i] = "%2C" -> ","
          [] text[i] = "%2F" -> "/"
          [] text[i] = "%3F" -> "?"
          [] text[i] = "%23" -> "#"
          [] text[i] = "%26" -> "&"
          [] text[i] = "%3D" -> "="
          [] text[i] = "%22" -> QUOTE
          [] text[i] = "%20" -> " "
          [] text[i] = "+" -> " "
          [] OTHER -> text[i]]

\* One name=value piece of a query, decoded; a piece without "=" has the
\* empty value.
pair(piece) ==
    [name |-> decode(SubSeq(piece, 1, FirstOf(piece, {"="}) - 1)),
     value |-> decode(SubSeq(piece, FirstOf(piece, {"="}) + 1, Len(piece)))]

NonEmpty(text) == text # <<>>

\* form_urlencoded::parse: the pairs of a query, in order; empty pieces are
\* skipped.
parse_pairs(query) ==
    [i \in 1..Len(SelectSeq(Split(query, "&"), NonEmpty)) |->
        pair(SelectSeq(Split(query, "&"), NonEmpty)[i])]

\* Url::query_pairs of the built request's URL.
QueryPairs ==
    IF IsSome(Unwrap(request).url.query)
    THEN parse_pairs(Unwrap(Unwrap(request).url.query))
    ELSE <<>>

\* The names of the pairs, in order.
QueryNames == [i \in 1..Len(QueryPairs) |-> QueryPairs[i].name]

\* The values of the pairs named name, in order.
ValuesOf(name) ==
    [i \in 1..Len(SelectSeq(QueryPairs, LAMBDA p : p.name = name)) |->
        SelectSeq(QueryPairs, LAMBDA p : p.name = name)[i].value]

\* The wire strings of tags, comma-joined.
Joined(tags) == join([i \in 1..Len(tags) |-> <<ExcludeBlockRename(tags[i])>>], ",")

\* The names build_url is to emit for the request's fields, in order.
NamesFor(req) ==
    (IF req.exclude # <<>> THEN <<EXCLUDE>> ELSE <<>>)
        \o (IF "extend" \in DOMAIN req /\ IsSome(req.extend) THEN <<EXTEND>> ELSE <<>>)
        \o (IF IsSome(req.lang) THEN <<LANG>> ELSE <<>>)
        \o (IF IsSome(req.units) THEN <<UNITS>> ELSE <<>>)

\* ------------------------------------------------------------------ claims

\* The url_string of the builder that new(..) made of the caller's arguments.
UrlStringOfArgs ==
    IF kind = "forecast"
    THEN ForecastRequestBuilder_url_string(
             ForecastRequestBuilder_new(hist.args[1], hist.args[2], hist.args[3]))
    ELSE TimeMachineRequestBuilder_url_string(
             TimeMachineRequestBuilder_new(hist.args[1], hist.args[2], hist.args[3],
                                           hist.args[4]))

\* Nothing optional was set and no exclusion was added.
NothingSet ==
    /\ hist.added = <<>>
    /\ hist.last = [extend |-> None, lang |-> None, units |-> None]

C2_ExcludeInOrder ==
    (pc = "built" /\ hist.added # <<>>) =>
        ValuesOf(EXCLUDE) = <<Joined(hist.added)>>

\* C3: the query of a forecast request's URL holds only exclude, extend,
\* lang and units, each at most once and in that order, a key being there
\* exactly when its field is set, and never with an empty value.
C3_OnlySetKeys ==
    (pc = "built" /\ kind = "forecast") =>
        /\ QueryNames = NamesFor(Unwrap(request))
        /\ \A i \in 1..Len(QueryPairs) : QueryPairs[i].value # <<>>

\* The example of the specification: key "some_api_key", 6.66, 66.6,
\* exclusions [Hourly, Daily, Alerts], extend Hourly, Arabic, Imperial.
C4_Example ==
    /\ pc = "built"
    /\ kind = "forecast"
    /\ hist.args = <<<<"some_api_key">>, "6.66", "66.6">>
    /\ hist.added = <<"Hourly", "Daily", "Alerts">>
    /\ hist.last = [extend |-> Some("Hourly"), lang |-> Some("Arabic"),
                    units |-> Some("Imperial")]

\* C4, as stated: the example's query string is exactly the text
\* exclude=hourly,daily,alerts&extend=hourly&lang=ar&units=us.
C4_QueryTextPlainCommas ==
    C4_Example =>
        Unwrap(request).url.query =
            Some(<<"exclude", "=", "hourly", ",", "daily", ",", "alerts", "&",
                   "extend", "=", "hourly", "&", "lang", "=", "ar", "&",
                   "units", "=", "us">>)

\* C4, amended: the example's query string is exactly the text
\* exclude=hourly%2Cdaily%2Calerts&extend=hourly&lang=ar&units=us, the commas
\* percent-encoded; its pairs decode to exclude=hourly,daily,alerts,
\* extend=hourly, lang=ar, units=us.
C4_QueryTextEncodedCommas ==
    C4_Example =>
        /\ Unwrap(request).url.query =
               Some(<<"exclude", "=", "hourly", "%2C", "daily", "%2C", "alerts", "&",
                      "extend", "=", "hourly", "&", "lang", "=", "ar", "&",
                      "units", "=", "us">>)
        /\ QueryPairs =
               <<[name |-> <<"exclude">>,
                  value |-> <<"hourly", ",", "daily", ",", "alerts">>],
                 [name |-> <<"extend">>, value |-> <<"hourly">>],
                 [name |-> <<"lang">>, value |-> <<"ar">>],
                 [name |-> <<"units">>, value |-> <<"us">>]>>

\* C4's case: the example was built.
C4_Witness == C4_Example /\ IsSome(Unwrap(request).url.query)

\* C5: build() right after new(..) gives a URL with an empty query, whose
\* text is the path and a bare "?", equal to the URL parsed from the
\* url_string followed by "?".
C5_BareQuestionMark ==
    (pc = "built" /\ NothingSet) =>
        /\ Unwrap(request).url.query = Some(<<>>)
        /\ Unwrap(request).url.fragment = None
        /\ Unwrap(request).url = Url_parse(UrlStringOfArgs \o <<"?">>).value

\* C6: extend, lang and units hold the value of the latest call, a field once
\* set is never unset, and the built URL has exactly one parameter for each
\* set field, with the wire string of that latest value.
C6_LastWriteWins ==
    /\ pc = "building" =>
          /\ kind = "forecast" => Unwrap(builder).extend = hist.last.extend
          /\ Unwrap(builder).lang = hist.last.lang
          /\ Unwrap(builder).units = hist.last.units
    /\ pc = "built" =>
          /\ kind = "forecast" => Unwrap(request).extend = hist.last.extend
          /\ Unwrap(request).lang = hist.last.lang
          /\ Unwrap(request).units = hist.last.units
          /\ IsSome(hist.last.extend) =>
                ValuesOf(EXTEND) = <<<<ExtendByRename(Unwrap(hist.last.extend))>>>>
          /\ IsSome(hist.last.lang) =>
                ValuesOf(LANG) = <<<<LangRename(Unwrap(hist.last.lang))>>>>
          /\ IsSome(hist.last.units) =>
                ValuesOf(UNITS) = <<<<UnitsRename(Unwrap(hist.last.units))>>>>

\* The builder new(..) returns for the caller's arguments.
FreshBuilder ==
    IF kind' = "forecast"
    THEN [api_key |-> hist'.args[1], latitude |-> hist'.args[2],
          longitude |-> hist'.args[3], exclude |-> <<>>, extend |-> None,
          lang |-> None, units |-> None]
    ELSE [api_key |-> hist'.args[1], latitude |-> hist'.args[2],
          longitude |-> hist'.args[3], time |-> hist'.args[4], exclude |-> <<>>,
          lang |-> None, units |-> None]

\* The request's fields other than url are the builder's.
CopiedFields ==
    /\ DOMAIN Unwrap(request') = DOMAIN Unwrap(builder) \cup {"url"}
    /\ \A f \in DOMAIN Unwrap(builder) : Unwrap(request')[f] = Unwrap(builder)[f]

\* C7: new(..) returns a builder with the given required fields, no exclusion
\* and nothing optional set; build() copies the builder's fields, as they are
\* when build() is called, into the request.
C7_NewAndBuildCopy ==
    [][/\ (pc # "building" /\ pc' = "building") => builder' = Some(FreshBuilder)
       /\ (pc = "building" /\ pc' = "built") => CopiedFields]_vars

\* C7's case: a request was built from a builder with every field set.
C7_Witness ==
    /\ pc = "built"
    /\ kind = "forecast"
    /\ Len(Unwrap(request).exclude) >= 2
    /\ IsSome(Unwrap(request).extend)
    /\ Unwrap(request).lang = Some("Catalan")
    /\ Unwrap(request).units = Some("CA")
    /\ Unwrap(request).latitude = "6.66"
    /\ Unwrap(request).longitude = "66.6"

\* C8: a time-machine URL carries the time as the third comma-separated
\* part of its last path segment and not in the query, whose keys are only
\* exclude, lang and units, in that order, each there exactly when set, and
\* never extend.
C8_TimeInPath ==
    (pc = "built" /\ kind = "time_machine") =>
        /\ Split(Unwrap(request).url.path[Len(Unwrap(request).url.path)], ",") =
               <<fmt_f64_16(Unwrap(request).latitude),
                 fmt_f64_16(Unwrap(request).longitude),
                 fmt_u64(Unwrap(request).time)>>
        /\ QueryNames = NamesFor(Unwrap(request))
        /\ \A i \in 1..Len(QueryPairs) :
              /\ QueryPairs[i].name \notin {EXTEND, <<"time">>}
              /\ \A j \in 1..Len(QueryPairs[i].value) :
                    <<QueryPairs[i].value[j]>> # fmt_u64(Unwrap(request).time)

\* The caller's API key holds none of the characters a URL gives meaning to.
PlainKey ==
    \A i \in 1..Len(hist.args[1]) : hist.args[1][i] \notin {"?", "#", "/", ".", "=", "&"}

\* C2, for a plain API key: the single exclude parameter holds the tags
\* added, in order.
C2_PlainKey ==
    (pc = "built" /\ hist.added # <<>> /\ PlainKey) =>
        ValuesOf(EXCLUDE) = <<Joined(hist.added)>>

\* C3, for a plain API key: the forecast query holds only the keys of the set
\* fields, once each, in order, with non-empty values.
C3_PlainKey ==
    (pc = "built" /\ kind = "forecast" /\ PlainKey) =>
        /\ QueryNames = NamesFor(Unwrap(request))
        /\ \A i \in 1..Len(QueryPairs) : QueryPairs[i].value # <<>>

\* C5, for a plain API key: build() right after new(..) gives the path and a
\* bare "?".
C5_PlainKey ==
    (pc = "built" /\ NothingSet /\ PlainKey) =>
        /\ Unwrap(request).url.query = Some(<<>>)
        /\ Unwrap(request).url.fragment = None
        /\ Unwrap(request).url = Url_parse(UrlStringOfArgs \o <<"?">>).value
        /\ as_str(Unwrap(request).url) = UrlStringOfArgs \o <<"?">>

\* C6, for a plain API key: the built URL has exactly one parameter for each
\* set field, with the wire string of the latest value.
C6_PlainKey ==
    (pc = "built" /\ PlainKey) =>
        /\ IsSome(hist.last.extend) =>
              ValuesOf(EXTEND) = <<<<ExtendByRename(Unwrap(hist.last.extend))>>>>
        /\ IsSome(hist.last.lang) =>
              ValuesOf(LANG) = <<<<LangRename(Unwrap(hist.last.lang))>>>>
        /\ IsSome(hist.last.units) =>
              ValuesOf(UNITS) = <<<<UnitsRename(Unwrap(hist.last.units))>>>>

\* C8, for a plain API key: the time is the third comma-separated part of the
\* last path segment, and the query holds only exclude, lang and units.
C8_PlainKey ==
    (pc = "built" /\ kind = "time_machine" /\ PlainKey) =>
        /\ Split(Unwrap(request).url.path[Len(Unwrap(request).url.path)], ",") =
               <<fmt_f64_16(Unwrap(request).latitude),
                 fmt_f64_16(Unwrap(request).longitude),
                 fmt_u64(Unwrap(request).time)>>
        /\ QueryNames = NamesFor(Unwrap(request))
        /\ \A i \in 1..Len(QueryPairs) : QueryPairs[i].name \notin {EXTEND, <<"time">>}

\* ------------------------------------------- claims on the response model

RECURSIVE ValueOf(_, _, _)

\* The value the document of a pick describes: an optional field is None where
\* the document leaves its key out or holds null under it, and every other
\* field holds what the document gives.
ValueOf(ty, tag, pick) ==
    CASE ty \in {"f64", "u64"} -> tag
      [] ty = "String" -> "text"
      [] ty \in EnumTypes -> CHOOSE v \in Variants(ty) : TRUE
      [] ty \in VecTypes -> <<ValueOf(ElementType(ty), tag, pick)>>
      [] ty \in StructTypes ->
            [name \in FieldNames(ty) |->
                IF ~FieldOf(ty, name).opt
                THEN ValueOf(FieldOf(ty, name).ty, IndexOfWire(ty, FieldOf(ty, name).wire), pick)
                ELSE IF ModeOf(ty, FieldOf(ty, name), pick) = "given"
                THEN Some(ValueOf(FieldOf(ty, name).ty,
                                  IndexOfWire(ty, FieldOf(ty, name).wire), pick))
                ELSE None]

\* The response that was read first.
First == Unwrap(serde.first).value

C10_AbsentIsNone ==
    (serde.phase \notin {"idle", "opened"} /\ Unwrap(serde.pick).bad = NoBad) =>
        /\ Unwrap(serde.first).ok
        /\ First = ValueOf("ApiResponse", 0, Unwrap(serde.pick))

\* "currently": null was read as None, in a document that leaves every other
\* optional field out except one it gives.
C10_Witness ==
    /\ serde.phase = "read"
    /\ Unwrap(serde.pick).bad = NoBad
    /\ Unwrap(serde.pick).b = [ty |-> "ApiResponse", field |-> "currently", mode |-> "null"]
    /\ Unwrap(serde.pick).rest = "missing"
    /\ Unwrap(serde.pick).a = [ty |-> "ApiResponse", field |-> "flags", mode |-> "given"]
    /\ Unwrap(serde.doc).v["currently"] = Null
    /\ "hourly" \notin DOMAIN Unwrap(serde.doc).v
    /\ First.currently = None
    /\ First.hourly = None
    /\ IsSome(First.flags)
    /\ Unwrap(First.flags).darksky_unavailable = None

RECURSIVE HasUnknownTag(_, _)

\* The JSON value j, at a place where type ty is read, holds at the place of
\* an enum a string that is the wire string of none of its variants.
HasUnknownTag(ty, j) ==
    CASE ty \in {"f64", "u64", "String"} -> FALSE
      [] ty \in EnumTypes ->
            j.t = "str" /\ j.v \notin {Rename(ty, v) : v \in Variants(ty)}
      [] ty \in VecTypes ->
            j.t = "arr" /\ \E i \in 1..Len(j.v) : HasUnknownTag(ElementType(ty), j.v[i])
      [] ty \in StructTypes ->
            j.t = "obj" /\
            \E i \in 1..Len(Fields(ty)) :
                /\ Fields(ty)[i].wire \in DOMAIN j.v
                /\ HasUnknownTag(Fields(ty)[i].ty, j.v[Fields(ty)[i].wire])

\* C11: a document that holds, at an icon, precipType, units or severity, a
\* string that is no wire string of the enum is not read: deserialization
\* fails and gives no ApiResponse.
C11_UnknownTagRejected ==
    (serde.phase \notin {"idle", "opened"}
        /\ HasUnknownTag("ApiResponse", Unwrap(serde.doc))) =>
        /\ ~Unwrap(serde.first).ok
        /\ serde.phase = "failed"
        /\ serde.text = None

\* A document that is complete but for "icon": "meteor-shower" was refused.
C11_Witness ==
    /\ serde.phase = "failed"
    /\ Unwrap(serde.pick).bad = [kind |-> "unknown_variant", ty |-> "Icon", field |-> ""]
    /\ Unwrap(serde.pick).rest = "given"
    /\ Unwrap(serde.pick).b = NoMod
    /\ Unwrap(serde.doc).v["currently"].v["icon"] = Str("meteor-shower")
    /\ ~Unwrap(serde.first).ok

RECURSIVE LacksRequiredOf(_, _, _)

\* The JSON value j, at a place where type ty is read, holds an object that is
\* read as one of the structs tys and has no key for one of its fields that is
\* no Option.
LacksRequiredOf(tys, ty, j) ==
    CASE ty \in {"f64", "u64", "String"} \cup EnumTypes -> FALSE
      [] ty \in VecTypes ->
            j.t = "arr" /\
            \E i \in 1..Len(j.v) : LacksRequiredOf(tys, ElementType(ty), j.v[i])
      [] ty \in StructTypes ->
            j.t = "obj" /\
            \E i \in 1..Len(Fields(ty)) :
                IF Fields(ty)[i].wire \in DOMAIN j.v
                THEN LacksRequiredOf(tys, Fields(ty)[i].ty, j.v[Fields(ty)[i].wire])
                ELSE ty \in tys /\ ~Fields(ty)[i].opt

\* C12: a document whose root lacks latitude, longitude or timezone, or that
\* holds a data point without time, a data block without data or a flags
\* object without sources or units, is not read; a document that lacks only
\* optional fields is read.
C12_RequiredEnforced ==
    serde.phase \notin {"idle", "opened"} =>
        /\ LacksRequiredOf({"ApiResponse", "DataPoint", "DataBlock", "Flags"},
                           "ApiResponse", Unwrap(serde.doc))
              => ~Unwrap(serde.first).ok /\ serde.phase = "failed"
        /\ (~LacksRequiredOf(StructTypes, "ApiResponse", Unwrap(serde.doc))
              /\ ~HasUnknownTag("ApiResponse", Unwrap(serde.doc)))
              => Unwrap(serde.first).ok

\* A document was refused whose only defect is that the data points of its
\* blocks have no time; it has no current conditions.
C12_Witness ==
    /\ serde.phase = "failed"
    /\ Unwrap(serde.pick).bad =
          [kind |-> "missing_required", ty |-> "DataPoint", field |-> "time"]
    /\ Unwrap(serde.pick).b = [ty |-> "ApiResponse", field |-> "currently", mode |-> "missing"]
    /\ Unwrap(serde.pick).rest = "given"
    /\ "time" \notin DOMAIN Unwrap(serde.doc).v["hourly"].v["data"].v[1].v
    /\ "latitude" \in DOMAIN Unwrap(serde.doc).v
    /\ ~Unwrap(serde.first).ok

\* The document holds an array of alerts with an alert that has no key for
\* one of the fields named in keys.
AlertLacks(keys, doc) ==
    /\ "alerts" \in DOMAIN doc.v
    /\ doc.v["alerts"].t = "arr"
    /\ \E i \in 1..Len(doc.v["alerts"].v) : keys \ DOMAIN doc.v["alerts"].v[i].v # {}

\* C13, as stated: a response with an alert that lacks any one of
\* description, severity, regions, expires, title, uri or time is not read.
C13_AllAlertFieldsRequired ==
    (serde.phase \notin {"idle", "opened"}
        /\ AlertLacks({"description", "severity", "regions", "expires", "title", "uri",
                       "time"}, Unwrap(serde.doc))) =>
        ~Unwrap(serde.first).ok

\* C13, amended: a response with an alert that lacks any one of description,
\* severity, regions, title, uri or time is not read; an alert that lacks
\* only expires, in a document without other defect, is read, with expires
\* None.
C13_AlertFieldsButExpires ==
    serde.phase \notin {"idle", "opened"} =>
        /\ AlertLacks({"description", "severity", "regions", "title", "uri", "time"},
                      Unwrap(serde.doc))
              => ~Unwrap(serde.first).ok /\ serde.phase = "failed"
        /\ (AlertLacks({"expires"}, Unwrap(serde.doc)) /\ Unwrap(serde.pick).bad = NoBad)
              => /\ Unwrap(serde.first).ok
                 /\ Unwrap(First.alerts)[1].expires = None

\* A document was refused whose only defect is an alert without title.
C13_Witness ==
    /\ serde.phase = "failed"
    /\ Unwrap(serde.pick).bad =
          [kind |-> "missing_required", ty |-> "Alert", field |-> "title"]
    /\ Unwrap(serde.pick).rest = "given"
    /\ Unwrap(serde.pick).b = NoMod
    /\ AlertLacks({"title"}, Unwrap(serde.doc))
    /\ ~AlertLacks({"description", "severity", "regions", "expires", "uri", "time"},
                   Unwrap(serde.doc))
    /\ ~Unwrap(serde.first).ok

\* ------------------------------------------------- claims on the ApiClient

\* C14: get_forecast and get_time_machine put exactly one GET on the wire, to
\* the URL stored in the request (into_url gives request.url), and return
\* what the transport answers: its error as the error, with no second
\* request, and a response of any status as Ok of that response.
C14_OneGetUnmodified ==
    http.phase = "done" =>
        /\ Len(http.sent) = 1
        /\ http.sent[1].method = "GET"
        /\ http.sent[1].url = Unwrap(http.request).url
        /\ Unwrap(http.result).ok = Unwrap(http.answer).ok
        /\ http.result = http.answer

\* A forecast request was sent once and the answer with status 404 came back
\* as Ok.
C14_Witness ==
    /\ http.phase = "done"
    /\ http.kind = "forecast"
    /\ Len(http.sent) = 1
    /\ Unwrap(http.answer).ok
    /\ Unwrap(http.answer).value.status = 404
    /\ Unwrap(http.result).ok
    /\ Unwrap(http.result).value.status = 404

\* C15: the facade sets no header that negotiates the content encoding: the
\* request builder it sends has no Accept-Encoding set on it, and the headers
\* on the wire are the ones the injected client sends on its own for a GET.
C15_NoEncodingHeaderByFacade ==
    http.phase = "done" =>
        \A i \in 1..Len(http.sent) :
            /\ ~HasHeader(http.sent[i].explicit, "Accept-Encoding")
            /\ http.sent[i].headers =
                  WireHeaders(Client_get(Unwrap(http.client).client, Ok(http.sent[i].url)))

\* C16: get_forecast and get_time_machine return a deserialized response: the
\* value in Ok has the fields of ApiResponse.
C16_ReturnsDeserialized ==
    (http.phase = "done" /\ Unwrap(http.result).ok) =>
        FieldNames("ApiResponse") \subseteq DOMAIN Unwrap(http.result).value

\* ----------------------------------------------------- claims on the enums

\* C17: every variant of every enum is written without error, as the one
\* string its rename gives, the same whenever it is written; and for Icon,
\* PrecipType, Units and Severity the string written is read back as the
\* variant it was written for.
C17_WireStringRoundTrip ==
    /\ conv.phase \in {"written", "read"} =>
          /\ Unwrap(conv.text).ok
          /\ Unwrap(conv.text) = to_string(EnumRename(conv.ty, conv.variant))
          /\ Unwrap(conv.text).value = <<QUOTE, EnumRename(conv.ty, conv.variant), QUOTE>>
    /\ conv.phase = "read" =>
          /\ Unwrap(conv.back).ok
          /\ Unwrap(conv.back).value = conv.variant

\* Sleet was written as "sleet" and read back as Sleet.
C17_Witness ==
    /\ conv.phase = "read"
    /\ conv.ty = "PrecipType"
    /\ conv.variant = "Sleet"
    /\ Unwrap(conv.text).value = <<QUOTE, "sleet", QUOTE>>
    /\ Unwrap(conv.back) = Ok("Sleet")

\* ------------------------------------------- claims on the URL's shape

\* The coordinate tuple of the built request: <lat>,<long> and, for a
\* time-machine request, ,<time>.
CoordinateTuple ==
    IF kind = "forecast"
    THEN join(<<fmt_f64_16(Unwrap(request).latitude),
                fmt_f64_16(Unwrap(request).longitude)>>, ",")
    ELSE join(<<fmt_f64_16(Unwrap(request).latitude),
                fmt_f64_16(Unwrap(request).longitude),
                fmt_u64(Unwrap(request).time)>>, ",")

\* The built URL is https://api.darksky.net/forecast/<key>/<tuple>?<query>
\* with the query of the builder's fields and no fragment.
UrlShape ==
    /\ Unwrap(request).url.scheme = "https"
    /\ Unwrap(request).url.host = <<"api.darksky.net">>
    /\ Unwrap(request).url.path = <<<<"forecast">>, hist.args[1], CoordinateTuple>>
    /\ Unwrap(request).url.fragment = None
    /\ IsSome(Unwrap(request).url.query)
    /\ QueryNames = NamesFor(Unwrap(request))

\* C18: for every API key the built URL has scheme https, host
\* api.darksky.net, a path of exactly the three segments forecast, the key
\* and the coordinate tuple, no fragment, and a query of only the pairs made
\* of the builder's fields.
C18_UrlShape == pc = "built" => UrlShape

\* C18, for a plain API key: the built URL has the shape.
C18_PlainKey == (pc = "built" /\ PlainKey) => UrlShape

\* The decimal digits.
Digits == {DigitChar[i] : i \in 1..10}

\* text is a fixed-point decimal: an optional sign, one digit or more, a
\* point, and exactly precision digits.
FixedPoint(text, precision) ==
    /\ Len(text) >= precision + 2
    /\ text[Len(text) - precision] = "."
    /\ \A i \in 1..Len(text) :
          \/ text[i] \in Digits /\ i # Len(text) - precision
          \/ text[i] = "." /\ i = Len(text) - precision
          \/ text[i] = "-" /\ i = 1 /\ Len(text) >= precision + 3

\* The comma-separated parts of the last path segment of the built URL.
LastSegmentParts ==
    Split(Unwrap(request).url.path[Len(Unwrap(request).url.path)], ",")

\* The text 6.6600000000000001,66.5999999999999943.
ExampleCoordinates ==
    <<"6", ".", "6", "6", "0", "0", "0", "0", "0", "0", "0", "0", "0", "0", "0", "0", "0", "1", ",",
      "6", "6", ".", "5", "9", "9", "9", "9", "9", "9", "9", "9", "9", "9", "9", "9", "9", "4", "3">>

\* The last path segment starts with the two coordinates of the request, each
\* a fixed-point decimal with 16 digits after the point, separated by a comma,
\* and the time-machine request has the time after them.
CoordinatesInPath ==
    /\ Len(LastSegmentParts) = (IF kind = "forecast" THEN 2 ELSE 3)
    /\ LastSegmentParts[1] = fmt_f64_16(hist.args[2])
    /\ LastSegmentParts[2] = fmt_f64_16(hist.args[3])
    /\ FixedPoint(LastSegmentParts[1], 16)
    /\ FixedPoint(LastSegmentParts[2], 16)
    /\ (hist.args[2] = "6.66" /\ hist.args[3] = "66.6") =>
          join(SubSeq(LastSegmentParts, 1, 2), ",") = ExampleCoordinates

\* C19: in the URL of a built request of either kind the latitude and the
\* longitude stand in the path as fixed-point decimals with exactly 16 digits
\* after the point, separated by a comma, for every finite coordinate; 6.66
\* and 66.6 give 6.6600000000000001,66.5999999999999943.
C19_CoordinatesInPath == pc = "built" => CoordinatesInPath

\* C19, for a plain API key: the coordinates stand in the last path segment
\* with exactly 16 digits after the point.
C19_PlainKey == (pc = "built" /\ PlainKey) => CoordinatesInPath

\* The text that build_url formats holds the two coordinates, each with 16
\* digits after the point, right after the key, whatever the key is.
C19_FormattedText ==
    pc = "building" =>
        (IF kind = "forecast"
         THEN ForecastRequestBuilder_url_string(Unwrap(builder))
         ELSE TimeMachineRequestBuilder_url_string(Unwrap(builder)))
        = FORECAST_URL \o <<"/">> \o hist.args[1] \o <<"/">>
              \o fmt_f64_16(hist.args[2]) \o <<",">> \o fmt_f64_16(hist.args[3])
              \o (IF kind = "forecast" THEN <<>> ELSE <<",">> \o fmt_u64(hist.args[4]))

\* Every literal's text is a fixed-point decimal with 16 digits after the point.
C19_EveryLiteralFixed ==
    \A x \in F64Literals : FixedPoint(fmt_f64_16(x), 16)

\* ------------------------------------------------ claims on the lent vector

\* C20: exclude_blocks(&mut v) moves the tags out of the caller's vector:
\* after every call the vector is empty, and a call with a vector that an
\* earlier call was given, on the same or on another builder, finds it empty
\* and leaves the builder's exclude sequence as it was.
C20_VectorMovedOut ==
    [][ExcludeMany =>
          /\ blocks' = <<>>
          /\ hist.passes >= 1 =>
                /\ blocks = <<>>
                /\ Unwrap(builder').exclude = Unwrap(builder).exclude]_vars

\* The vector was passed to exclude_blocks a second time, the second time on
\* a time-machine builder, and the request built excludes Hourly alone: the
\* second call appended nothing.
C20_Witness ==
    /\ pc = "built"
    /\ kind = "time_machine"
    /\ hist.passes = 2
    /\ blocks = <<>>
    /\ Unwrap(request).exclude = <<"Hourly">>

\* --------------------------------------------- claims on the builder calls

\* builder.exclude_block(tag) of the builder's kind.
ExcludeBlockOf(k, self, tag) ==
    IF k = "forecast"
    THEN ForecastRequestBuilder_exclude_block(self, tag)
    ELSE TimeMachineRequestBuilder_exclude_block(self, tag)

\* builder.exclude_blocks(&mut v) of the builder's kind: the builder returned.
ExcludeBlocksOf(k, self, v) ==
    IF k = "forecast"
    THEN ForecastRequestBuilder_exclude_blocks(self, v).self
    ELSE TimeMachineRequestBuilder_exclude_blocks(self, v).self

\* builder.build() of the builder's kind.
BuildOf(k, self) ==
    IF k = "forecast"
    THEN ForecastRequestBuilder_build(self)
    ELSE TimeMachineRequestBuilder_build(self)

RECURSIVE OneByOne(_, _, _)
\* builder.exclude_block(v[1])...exclude_block(v[n])
OneByOne(k, self, v) ==
    IF v = <<>> THEN self
    ELSE OneByOne(k, ExcludeBlockOf(k, self, Head(v)), Tail(v))

\* s is the beginning of t.
IsPrefix(s, t) == Len(s) <= Len(t) /\ SubSeq(t, 1, Len(s)) = s

\* C21: from any builder state exclude_blocks(v) gives the builder, and the
\* built request with its URL, that exclude_block of each tag of v in turn
\* gives; exclude_blocks of an empty vector leaves the builder as it is; and
\* no builder call removes or reorders the tags excluded so far. The first
\* part is looked at in the state build() is called in, which every state of
\* a builder is.
C21_BulkIsRepeatedSingle ==
    [][/\ (pc = "building" /\ pc' = "built") =>
             /\ ExcludeBlocksOf(kind, Unwrap(builder), blocks)
                    = OneByOne(kind, Unwrap(builder), blocks)
             /\ BuildOf(kind, ExcludeBlocksOf(kind, Unwrap(builder), blocks))
                    = BuildOf(kind, OneByOne(kind, Unwrap(builder), blocks))
             /\ ExcludeBlocksOf(kind, Unwrap(builder), <<>>) = Unwrap(builder)
             /\ Unwrap(builder).exclude = hist.added
             /\ Unwrap(request').exclude = Unwrap(builder).exclude
       /\ (pc = "building" /\ pc' = "building") =>
             IsPrefix(Unwrap(builder).exclude, Unwrap(builder').exclude)]_vars

\* C21's case: three tags were added, by exclude_blocks and, where the vector
\* held fewer than three, by exclude_block too, and the request built holds
\* them in the order given.
C21_Witness ==
    /\ pc = "built"
    /\ kind = "time_machine"
    /\ hist.passes >= 1
    /\ blocks = <<>>
    /\ Unwrap(request).exclude = <<"Hourly", "Daily", "Alerts">>

\* The fields of the builder that a step gives another value.
ChangedFields ==
    {f \in DOMAIN Unwrap(builder) : Unwrap(builder')[f] # Unwrap(builder)[f]}

\* The fields new(..) was given hold what it was given.
RequiredAsGiven(r) ==
    /\ r.api_key = hist.args[1]
    /\ r.latitude = hist.args[2]
    /\ r.longitude = hist.args[3]
    /\ kind = "time_machine" => r.time = hist.args[4]

\* C22: every builder operation changes its own field only: exclude_block
\* and exclude_blocks the exclusion sequence, extend extend, lang lang, units
\* units; and api_key, latitude, longitude and time stay what new(..) was
\* given through every builder operation and through build().
C22_OwnFieldOnly ==
    [][/\ (pc = "building" /\ pc' = "building") =>
             /\ DOMAIN Unwrap(builder') = DOMAIN Unwrap(builder)
             /\ RequiredAsGiven(Unwrap(builder))
             /\ RequiredAsGiven(Unwrap(builder'))
       /\ ((\E b \in ExcludeBlocksIn : ExcludeOne(b)) \/ ExcludeMany) =>
             ChangedFields \subseteq {"exclude"}
       /\ (\E e \in ExtendBy : SetExtend(e)) => ChangedFields \subseteq {"extend"}
       /\ (\E l \in LangsIn : SetLang(l)) => ChangedFields \subseteq {"lang"}
       /\ (\E u \in UnitsIn : SetUnits(u)) => ChangedFields \subseteq {"units"}
       /\ (pc = "building" /\ pc' = "built") =>
             /\ RequiredAsGiven(Unwrap(builder))
             /\ RequiredAsGiven(Unwrap(request'))]_vars

\* C22's case: every operation of a forecast builder has acted, one of the
\* setters a second time with another value, and each field holds what its
\* own operation gave it.
C22_Witness ==
    /\ pc = "building"
    /\ kind = "forecast"
    /\ Unwrap(builder).exclude = <<"Daily", "Hourly">>
    /\ Unwrap(builder).extend = Some("Hourly")
    /\ Unwrap(builder).lang = Some("Arabic")
    /\ Unwrap(builder).units = Some("CA")
    /\ hist.overwrote

\* The builder that holds the caller's final values and nothing else: the
\* arguments of new(..), the tags in the order added, and the value of the
\* latest extend, lang and units call.
FinalFields ==
    IF kind = "forecast"
    THEN [api_key |-> hist.args[1], latitude |-> hist.args[2],
          longitude |-> hist.args[3], exclude |-> hist.added,
          extend |-> hist.last.extend, lang |-> hist.last.lang,
          units |-> hist.last.units]
    ELSE [api_key |-> hist.args[1], latitude |-> hist.args[2],
          longitude |-> hist.args[3], time |-> hist.args[4],
          exclude |-> hist.added, lang |-> hist.last.lang,
          units |-> hist.last.units]

\* build_url of the builder's kind.
BuildUrlOf(k, self) ==
    IF k = "forecast"
    THEN ForecastRequestBuilder_build_url(self)
    ELSE TimeMachineRequestBuilder_build_url(self)

\* C23: the built URL is a function of the final field values only: in
\* whatever order extend, lang, units and the exclusion adds were called, and
\* whatever values were overwritten on the way, the builder is the one that
\* holds the final values, and the request's URL is build_url of them.
C23_UrlOfFinalFields ==
    /\ pc = "building" => Unwrap(builder) = FinalFields
    /\ pc = "built" =>
          /\ Unwrap(request).url = BuildUrlOf(kind, FinalFields)
          /\ CASE kind = "forecast" ->
                    Unwrap(request) = ForecastRequestBuilder_build(FinalFields).value
               [] kind = "time_machine" ->
                    Unwrap(request) = TimeMachineRequestBuilder_build(FinalFields).value

\* C23's case: the request of test_forecast_request_builder_simple, built
\* after one of extend, lang and units had been called with another value
\* before.
C23_Witness ==
    /\ pc = "built"
    /\ kind = "forecast"
    /\ hist.args[1] = <<"some_api_key">>
    /\ hist.overwrote
    /\ Unwrap(request).exclude = <<"Hourly", "Daily", "Alerts">>
    /\ Unwrap(request).extend = Some("Hourly")
    /\ Unwrap(request).lang = Some("Arabic")
    /\ Unwrap(request).units = Some("Imperial")

\* ----------------------------------------------- claims on the wire strings

\* The value of the last of the pairs that is named name.
LastValueIn(pairs, name) ==
    pairs[CHOOSE i \in 1..Len(pairs) :
              /\ pairs[i].name = name
              /\ \A j \in (i + 1)..Len(pairs) : pairs[j].name # name].value

\* The value of the last pair named name in the built URL's query.
LastValueOf(name) == LastValueIn(QueryPairs, name)

\* The variants of the enumeration ty whose wire string is the text.
VariantsWritten(ty, text) ==
    {v \in EnumVariants(ty) : <<EnumRename(ty, v)>> = text}

\* The wire strings of distinct variants of one enumeration differ.
WireStringsDistinct ==
    \A ty \in AllEnums : \A v, w \in EnumVariants(ty) :
        v # w => EnumRename(ty, v) # EnumRename(ty, w)

\* ca is written for Lang::Catalan and Units::CA and for no other variant of
\* any enumeration, and lang and units are different query keys.
CaOfCatalanAndCA ==
    /\ {ty \in AllEnums : VariantsWritten(ty, <<"ca">>) # {}} = {"Lang", "Units"}
    /\ VariantsWritten("Lang", <<"ca">>) = {"Catalan"}
    /\ VariantsWritten("Units", <<"ca">>) = {"CA"}
    /\ LANG # UNITS

\* The tags of the built request can be read off its URL: the value of the last
\* pair of each key is the wire string of the request's tag and of no other
\* variant, so requests that differ in a tag differ in the URL.
TagsReadOffUrl ==
    \E pairs \in {QueryPairs} :
        /\ IsSome(Unwrap(request).lang) =>
              \E text \in {LastValueIn(pairs, LANG)} :
                  VariantsWritten("Lang", text) = {Unwrap(Unwrap(request).lang)}
        /\ IsSome(Unwrap(request).units) =>
              \E text \in {LastValueIn(pairs, UNITS)} :
                  VariantsWritten("Units", text) = {Unwrap(Unwrap(request).units)}
        /\ (kind = "forecast" /\ IsSome(Unwrap(request).extend)) =>
              \E text \in {LastValueIn(pairs, EXTEND)} :
                  VariantsWritten("ExtendBy", text) = {Unwrap(Unwrap(request).extend)}
        /\ Unwrap(request).exclude # <<>> =>
              \E texts \in {Split(LastValueIn(pairs, EXCLUDE), ",")} :
                  /\ Len(texts) = Len(Unwrap(request).exclude)
                  /\ \A i \in 1..Len(texts) :
                        VariantsWritten("ExcludeBlock", texts[i])
                            = {Unwrap(request).exclude[i]}

\* C24: within each enumeration the wire strings of distinct variants are
\* pairwise distinct, so the wire string identifies the variant and two
\* requests that differ in one tag have different URLs; ca is the wire string
\* of Lang::Catalan and Units::CA and of no other variant, and the two travel
\* under different query keys.
C24_WireStringsDistinct ==
    /\ WireStringsDistinct
    /\ CaOfCatalanAndCA
    /\ pc = "built" => TagsReadOffUrl

\* C24's case: a forecast request with lang Catalan and units CA, both
\* written ca, and a tag of each other enumeration, was built.
C24_Witness ==
    /\ pc = "built"
    /\ kind = "forecast"
    /\ Unwrap(request).lang = Some("Catalan")
    /\ Unwrap(request).units = Some("CA")
    /\ Unwrap(request).extend = Some("Hourly")
    /\ Unwrap(request).exclude = <<"Flags">>
    /\ LastValueOf(LANG) = LastValueOf(UNITS)

====
